---- MODULE Spec2Model ----
(***************************************************************************)
(* RootlessNet protocol core: Double Ratchet (ratchet.ts), X3DH (x3dh.ts), *)
(* SessionManager (session.ts) and multi-recipient content (content.ts,    *)
(* keyexchange.ts).                                                        *)
(*                                                                         *)
(* Cryptography is modelled symbolically.  A private key is a fresh        *)
(* number (0 is a zeroized buffer); HKDF, X25519 and the AEAD are free     *)
(* injective constructors: two derived values are equal exactly when they  *)
(* were derived the same way from equal inputs.                            *)
(***************************************************************************)
EXTENDS Naturals, Sequences, FiniteSets

VARIABLES
    st,        \* ratchet spec: party -> RatchetState
    net,       \* ratchet spec: every EncryptedMessage produced so far, with its addressee
    log,       \* ratchet spec: per message of net, deliveries and successful decryptions
    nextKey,   \* next unused key-pair number (the CSPRNG never repeats a key)
    faults,    \* tampered copies, replays and misdeliveries so far
    dirt,      \* ratchet spec: "clean" | "tampered" | "dirty" (history of the deliveries)
    last,      \* the last operation performed and what it returned
    prekeys,   \* session spec: the PrekeySet of responder B's SessionManager
    bundle,    \* session spec: initiator -> the bundle snapshot it fetched (optional)
    convs,     \* session spec: manager -> its conversations, in creation order
    shakes,    \* session spec: the X3DH results the initiators obtained
    dms,       \* session spec: the DirectMessages sent so far
    objects,   \* content spec: the content objects created so far
    docs,      \* identity spec: the identity documents created so far
    backups,   \* identity spec: the encrypted backups exported so far
    boxes      \* seal spec: the sealed boxes and multi-recipient payloads made so far

ratchetVars == <<st, net, log, faults, dirt>>
sessionVars == <<prekeys, bundle, convs, shakes, dms>>
contentVars == <<objects>>
identityVars == <<docs, backups>>
sealVars == <<boxes>>
vars == <<st, net, log, nextKey, faults, dirt, last,
          prekeys, bundle, convs, shakes, dms, objects, docs, backups, boxes>>

(***************************************************************************)
(* Bounds of the model.                                                    *)
(***************************************************************************)
\* maxSkip of every ratchet state (MAX_SKIP = 1000 in the source, scaled down)
MaxSkip == 1
\* messages encrypted in one run of the ratchet specification
MaxMsgs == 4
\* tampered copies, repeated deliveries and misdeliveries in one run
MaxFaults == 1

\* one-time prekeys generated with a prekey set (default 100 in the source)
NumOneTimePrekeys == 2
\* X3DH handshakes started in one run of the session specification
MaxShakes == 3
\* acceptConversation calls in one run
MaxAccepts == 3
\* DirectMessages sent in one run
MaxDms == 1
MaxTime == 2
\* content objects created in one run of the content specification
MaxObjects == 1
\* longest recipient list given to createContent
MaxRecipients == 2

\* the plaintext of the k-th message a party encrypts
Payload(p, k) == <<p, k>>
Party == {"A", "B"}
Peer(p) == IF p = "A" THEN "B" ELSE "A"

(***************************************************************************)
(* Optional values (TypeScript `x?: T`): <<>> is undefined, <<v>> is v.    *)
(***************************************************************************)
None == <<>>
Some(v) == <<v>>
Get(o) == o[1]

\* JavaScript truthiness of an optional number: undefined and 0 are falsy
Truthy(o) == o # None /\ Get(o) # 0

(***************************************************************************)
(* Primitives.                                                             *)
(***************************************************************************)
\* x25519.getPublicKey: the public half of private key k
getPublicKey(privateKey) == <<"pub", privateKey>>

\* generateEncryptionKeyPair with the fresh private key `fresh`
generateEncryptionKeyPair(fresh) ==
    [publicKey |-> getPublicKey(fresh), privateKey |-> fresh]

\* X25519(a, pub(b)) = X25519(b, pub(a)): the unordered pair of the two points.
\* Bytes that are no X25519 public key of a known scalar (an Ed25519 key, the
\* public half of a zeroized scalar) are a point of their own.
x25519ECDH(myPrivateKey, theirPublicKey) == {getPublicKey(myPrivateKey), theirPublicKey}

\* a comparison that finds every two arrays equal
constantTimeEqual_always(a, b) == TRUE

\* constantTimeEqual on two byte arrays
constantTimeEqual(a, b) == a = b

\* A 32-byte secret used as a root key: the secret and the DH outputs mixed in so far.
RootOf(secret) == [ss |-> secret, dhs |-> <<>>]

\* kdfRootKey: HKDF(root || dh) under the root-key and the chain-key infos
kdfRootKey(rootKey, dhOutput) ==
    [newRootKey |-> [rootKey EXCEPT !.dhs = Append(@, dhOutput)],
     chainKey   |-> [root |-> rootKey, dh |-> dhOutput, i |-> 0]]

\* kdfChain: HKDF(chain) under the message-key and the chain-key infos
kdfChain(chainKey) ==
    [messageKey   |-> [from |-> chainKey],
     nextChainKey |-> [chainKey EXCEPT !.i = @ + 1]]

\* AEAD results
Ok(pt) == [kind |-> "ok", pt |-> pt]
Err(kind) == [kind |-> kind, pt |-> <<>>]

\* encrypt: XChaCha20-Poly1305 of plaintext under key and nonce
encrypt(key, plaintext, nonce) ==
    [key |-> key, pt |-> plaintext, nonce |-> nonce, intact |-> TRUE]

\* decrypt: the plaintext when key, nonce and every ciphertext/tag bit match
decrypt(key, ciphertext, nonce) ==
    IF ciphertext.intact /\ ciphertext.key = key /\ ciphertext.nonce = nonce
    THEN Ok(ciphertext.pt)
    ELSE Err("AuthError")

(***************************************************************************)
(* skippedKeys: a JavaScript Map, here the sequence of its entries in      *)
(* insertion order.  The key string `${toHex(dh)}:${n}` is the pair        *)
(* <<dh, n>> (toHex is injective and emits no ':').                        *)
(***************************************************************************)
SkippedKeyId(dhPublic, n) == <<dhPublic, n>>

MapHas(m, id) == \E i \in 1..Len(m) : m[i].id = id
MapIndex(m, id) == CHOOSE i \in 1..Len(m) : m[i].id = id
MapGet(m, id) == m[MapIndex(m, id)].key
\* Map.set: an existing key keeps its place, a new one goes last
MapSet(m, id, key) ==
    IF MapHas(m, id)
    THEN [m EXCEPT ![MapIndex(m, id)] = [id |-> id, key |-> key]]
    ELSE Append(m, [id |-> id, key |-> key])
MapDelete(m, id) ==
    IF MapHas(m, id)
    THEN LET k == MapIndex(m, id)
         IN [i \in 1..(Len(m) - 1) |-> IF i < k THEN m[i] ELSE m[i + 1]]
    ELSE m

(***************************************************************************)
(* ratchet.ts                                                              *)
(***************************************************************************)
initSenderRatchet(sharedSecret, recipientDhPublic, fresh) ==
    LET dhSend == generateEncryptionKeyPair(fresh)
        dhOutput == x25519ECDH(dhSend.privateKey, recipientDhPublic)
        k == kdfRootKey(RootOf(sharedSecret), dhOutput)
    IN [dhSend |-> dhSend,
        dhReceive |-> Some(recipientDhPublic),
        rootKey |-> k.newRootKey,
        sendChainKey |-> Some(k.chainKey),
        receiveChainKey |-> None,
        sendN |-> 0, receiveN |-> 0, previousSendN |-> 0,
        skippedKeys |-> <<>>,
        maxSkip |-> MaxSkip]

initReceiverRatchet(sharedSecret, dhKeyPair) ==
    [dhSend |-> dhKeyPair,
     dhReceive |-> None,
     rootKey |-> RootOf(sharedSecret),
     sendChainKey |-> None,
     receiveChainKey |-> None,
     sendN |-> 0, receiveN |-> 0, previousSendN |-> 0,
     skippedKeys |-> <<>>,
     maxSkip |-> MaxSkip]

\* the counters of dhRatchetStep
stepCounters_keepReceiveN(state) ==
    [state EXCEPT !.previousSendN = state.sendN, !.sendN = 0]

stepCounters_keepPreviousSendN(state) ==
    [state EXCEPT !.sendN = 0, !.receiveN = 0]

stepCounters(state) ==
    [state EXCEPT !.previousSendN = state.sendN, !.sendN = 0, !.receiveN = 0]

\* a DH ratchet step that derives no sending chain
dhRatchetStep_noSendChain(state, theirDhPublic, fresh) ==
    LET s0 == stepCounters(state)
        dhOutput1 == x25519ECDH(s0.dhSend.privateKey, theirDhPublic)
        result1 == kdfRootKey(s0.rootKey, dhOutput1)
    IN [s0 EXCEPT !.dhReceive = Some(theirDhPublic),
                  !.receiveChainKey = Some(result1.chainKey),
                  !.dhSend = generateEncryptionKeyPair(fresh),
                  !.rootKey = result1.newRootKey]

dhRatchetStep(state, theirDhPublic, fresh) ==
    LET s0 == stepCounters(state)
        dhOutput1 == x25519ECDH(s0.dhSend.privateKey, theirDhPublic)
        result1 == kdfRootKey(s0.rootKey, dhOutput1)
        dhSend == generateEncryptionKeyPair(fresh)
        dhOutput2 == x25519ECDH(dhSend.privateKey, theirDhPublic)
        result2 == kdfRootKey(result1.newRootKey, dhOutput2)
    IN [s0 EXCEPT !.dhReceive = Some(theirDhPublic),
                  !.receiveChainKey = Some(result1.chainKey),
                  !.dhSend = dhSend,
                  !.rootKey = result2.newRootKey,
                  !.sendChainKey = Some(result2.chainKey)]

\* "Limit stored keys": drop the first entry once the map is over maxSkip
evictOldest_never(skippedKeys, maxSkip) == skippedKeys

\* an eviction that drops the entry stored last
evictOldest_newest(skippedKeys, maxSkip) ==
    IF Len(skippedKeys) > maxSkip
    THEN SubSeq(skippedKeys, 1, Len(skippedKeys) - 1)
    ELSE skippedKeys

evictOldest(skippedKeys, maxSkip) ==
    IF Len(skippedKeys) > maxSkip THEN Tail(skippedKeys) ELSE skippedKeys

\* the guard of skipMessageKeys
tooManySkipped_offByOne(state, until) == state.receiveN + state.maxSkip <= until

tooManySkipped(state, until) == state.receiveN + state.maxSkip < until

\* the while loop of skipMessageKeys
RECURSIVE skipLoop(_, _)
skipLoop(state, until) ==
    IF state.receiveN < until
    THEN LET k == kdfChain(Get(state.receiveChainKey))
             keyId == SkippedKeyId(Get(state.dhReceive), state.receiveN)
             stored == MapSet(state.skippedKeys, keyId, k.messageKey)
         IN skipLoop([state EXCEPT
                        !.skippedKeys = evictOldest(stored, state.maxSkip),
                        !.receiveChainKey = Some(k.nextChainKey),
                        !.receiveN = @ + 1], until)
    ELSE state

skipMessageKeys(state, until) ==
    IF state.receiveChainKey = None THEN [ok |-> TRUE, state |-> state]
    ELSE IF tooManySkipped(state, until) THEN [ok |-> FALSE, state |-> state]
    ELSE [ok |-> TRUE, state |-> skipLoop(state, until)]

\* an encryption that does not count the message
ratchetEncrypt_sameN(state, plaintext, nonce) ==
    IF state.sendChainKey = None
    THEN [ok |-> FALSE, state |-> state]
    ELSE LET k == kdfChain(Get(state.sendChainKey))
             header == [dhPublic |-> state.dhSend.publicKey,
                        n |-> state.sendN,
                        pn |-> state.previousSendN]
         IN [ok |-> TRUE,
             state |-> [state EXCEPT !.sendChainKey = Some(k.nextChainKey)],
             message |-> [header |-> header,
                          ciphertext |-> encrypt(k.messageKey, plaintext, nonce),
                          nonce |-> nonce]]

ratchetEncrypt(state, plaintext, nonce) ==
    IF state.sendChainKey = None
    THEN [ok |-> FALSE, state |-> state]
    ELSE LET k == kdfChain(Get(state.sendChainKey))
             header == [dhPublic |-> state.dhSend.publicKey,
                        n |-> state.sendN,
                        pn |-> state.previousSendN]
         IN [ok |-> TRUE,
             state |-> [state EXCEPT !.sendChainKey = Some(k.nextChainKey),
                                     !.sendN = @ + 1],
             message |-> [header |-> header,
                          ciphertext |-> encrypt(k.messageKey, plaintext, nonce),
                          nonce |-> nonce]]

\* the skipped-key branch of ratchetDecrypt: the entry is deleted before the AEAD runs
useSkippedKey_keepEntry(state, message) ==
    LET keyId == SkippedKeyId(message.header.dhPublic, message.header.n)
    IN [state |-> state,
        res |-> decrypt(MapGet(state.skippedKeys, keyId), message.ciphertext, message.nonce)]

useSkippedKey(state, message) ==
    LET keyId == SkippedKeyId(message.header.dhPublic, message.header.n)
    IN [state |-> [state EXCEPT !.skippedKeys = MapDelete(@, keyId)],
        res |-> decrypt(MapGet(state.skippedKeys, keyId), message.ciphertext, message.nonce)]

\* the tail of ratchetDecrypt: derive the message key, advance the chain, then decrypt
deriveAndDecrypt_keepChain(state, message) ==
    LET k == kdfChain(Get(state.receiveChainKey))
    IN [state |-> [state EXCEPT !.receiveN = @ + 1],
        res |-> decrypt(k.messageKey, message.ciphertext, message.nonce)]

deriveAndDecrypt(state, message) ==
    LET k == kdfChain(Get(state.receiveChainKey))
    IN [state |-> [state EXCEPT !.receiveChainKey = Some(k.nextChainKey),
                                !.receiveN = @ + 1],
        res |-> decrypt(k.messageKey, message.ciphertext, message.nonce)]

\* ratchetDecrypt: the state it leaves (also when it throws) and what it returns
ratchetDecrypt(state, message, fresh) ==
    LET keyId == SkippedKeyId(message.header.dhPublic, message.header.n)
    IN IF MapHas(state.skippedKeys, keyId)
       THEN useSkippedKey(state, message)
       ELSE
         LET dhChanged == state.dhReceive = None
                          \/ ~constantTimeEqual(message.header.dhPublic, Get(state.dhReceive))
             skip1 == IF dhChanged /\ state.dhReceive # None
                      THEN skipMessageKeys(state, message.header.pn)
                      ELSE [ok |-> TRUE, state |-> state]
         IN IF ~skip1.ok
            THEN [state |-> state, res |-> Err("TooManySkipped")]
            ELSE
              LET s2 == IF dhChanged
                        THEN dhRatchetStep(skip1.state, message.header.dhPublic, fresh)
                        ELSE skip1.state
                  skip2 == skipMessageKeys(s2, message.header.n)
              IN IF ~skip2.ok
                 THEN [state |-> s2, res |-> Err("TooManySkipped")]
                 ELSE IF skip2.state.receiveChainKey = None
                 THEN [state |-> skip2.state, res |-> Err("NoReceiveChain")]
                 ELSE deriveAndDecrypt(skip2.state, message)

(***************************************************************************)
(* The ratchet specification: A and B hold the two ratchet states made     *)
(* from one X3DH secret; the network delivers in any order, replays and    *)
(* tampers.                                                                *)
(***************************************************************************)
\* the X3DH secret both states start from, and B's signed-prekey pair
RatchetSecret == <<{"x3dh"}>>
SignedPrekeyPair == generateEncryptionKeyPair(1)

NoOp == [op |-> "none", who |-> "A", msg |-> 0, tampered |-> FALSE, retry |-> FALSE,
         res |-> Err("none"), demand |-> 0, cached |-> FALSE, evicted |-> FALSE]

InitRatchet ==
    /\ st = [p \in Party |->
               IF p = "A"
               THEN initSenderRatchet(RatchetSecret, SignedPrekeyPair.publicKey, 2)
               ELSE initReceiverRatchet(RatchetSecret, SignedPrekeyPair)]
    /\ net = <<>>
    /\ log = <<>>
    /\ nextKey = 3
    /\ faults = 0
    /\ dirt = "clean"
    /\ last = NoOp
    /\ prekeys = <<>> /\ bundle = <<>> /\ convs = <<>>
    /\ shakes = <<>> /\ dms = <<>>
    /\ objects = <<>>
    /\ docs = <<>> /\ backups = <<>> /\ boxes = <<>>

\* p encrypts its next plaintext for its peer
Send(p) ==
    /\ LET pt == Payload(p, Cardinality({i \in 1..Len(net) : net[i].to = Peer(p)}))
           r == ratchetEncrypt(st[p], pt, Len(net) + 1)
       IN IF r.ok
          THEN /\ st' = [st EXCEPT ![p] = r.state]
               /\ net' = Append(net, [to |-> Peer(p), pt |-> pt, message |-> r.message])
               /\ log' = Append(log, [deliv |-> 0, ok |-> 0])
               /\ last' = [NoOp EXCEPT !.op = "encrypt", !.who = p,
                                       !.msg = Len(net) + 1, !.res = Ok(pt)]
          ELSE /\ UNCHANGED <<st, net, log>>
               /\ last' = [NoOp EXCEPT !.op = "encrypt", !.who = p,
                                       !.res = Err("RatchetNotReady")]
    /\ UNCHANGED <<nextKey, faults, dirt>>
    /\ UNCHANGED <<sessionVars, contentVars, identityVars, sealVars>>

\* the chain of message i is older than the chain of message j (same sender)
OlderChain(i, j) == net[i].message.header.dhPublic[2] < net[j].message.header.dhPublic[2]

\* message i is passed over once message j has been delivered
PassedBy(i, j) ==
    /\ net[i].to = net[j].to
    /\ \/ OlderChain(i, j)
       \/ /\ net[i].message.header.dhPublic = net[j].message.header.dhPublic
          /\ net[i].message.header.n < net[j].message.header.n

\* the messages whose keys the receiver has to hold once j is delivered
OutstandingWith(j) ==
    {i \in 1..Len(net) :
        /\ i # j
        /\ log[i].deliv = 0
        /\ \E d \in 1..Len(net) : (d = j \/ log[d].deliv > 0) /\ PassedBy(i, d)}

\* the most message keys one skipMessageKeys call of this decryption has to derive
SkipDemand(s, h) ==
    IF MapHas(s.skippedKeys, SkippedKeyId(h.dhPublic, h.n)) THEN 0
    ELSE IF s.dhReceive = None \/ Get(s.dhReceive) # h.dhPublic
    THEN LET old == IF s.receiveChainKey # None /\ h.pn > s.receiveN
                    THEN h.pn - s.receiveN ELSE 0
         IN IF old > h.n THEN old ELSE h.n
    ELSE IF s.receiveChainKey # None /\ h.n > s.receiveN THEN h.n - s.receiveN ELSE 0

Receive(j, m, isTampered) ==
    LET p == net[j].to
        r == ratchetDecrypt(st[p], m, nextKey)
        stepped == r.state.dhSend # st[p].dhSend
    IN /\ st' = [st EXCEPT ![p] = r.state]
       /\ nextKey' = IF stepped THEN nextKey + 1 ELSE nextKey
       /\ log' = [log EXCEPT ![j] =
                    [deliv |-> IF isTampered THEN @.deliv ELSE @.deliv + 1,
                     ok |-> IF r.res.kind = "ok" THEN @.ok + 1 ELSE @.ok]]
       /\ dirt' = IF \/ dirt = "dirty"
                     \/ log[j].deliv > 0
                     \/ Cardinality(OutstandingWith(j)) > st[p].maxSkip
                  THEN "dirty"
                  ELSE IF isTampered THEN "tampered" ELSE dirt
       /\ last' = [op |-> "decrypt", who |-> p, msg |-> j, tampered |-> isTampered,
                   retry |-> /\ ~isTampered
                             /\ last.op = "decrypt" /\ last.tampered /\ last.msg = j
                             /\ last.res.kind = "AuthError",
                   res |-> r.res,
                   demand |-> SkipDemand(st[p], m.header),
                   cached |-> MapHas(st[p].skippedKeys,
                                     SkippedKeyId(m.header.dhPublic, m.header.n)),
                   evicted |-> \E i \in 1..Len(st[p].skippedKeys) :
                                  ~MapHas(r.state.skippedKeys, st[p].skippedKeys[i].id)
                                  /\ st[p].skippedKeys[i].id
                                       # SkippedKeyId(m.header.dhPublic, m.header.n)]
       /\ UNCHANGED net
       /\ UNCHANGED <<sessionVars, contentVars, identityVars, sealVars>>

\* the network delivers the genuine copy of message j
Deliver(j) ==
    /\ log[j].deliv > 0 => faults < MaxFaults
    /\ faults' = IF log[j].deliv > 0 THEN faults + 1 ELSE faults
    /\ Receive(j, net[j].message, FALSE)

\* the network delivers a copy of message j with the ciphertext or the nonce altered
DeliverTampered(j, part) ==
    /\ faults < MaxFaults
    /\ faults' = faults + 1
    /\ Receive(j,
               IF part = "ciphertext"
               THEN [net[j].message EXCEPT !.ciphertext.intact = FALSE]
               ELSE [net[j].message EXCEPT !.nonce = 0],
               TRUE)

NextRatchet ==
    \/ \E p \in Party : Len(net) < MaxMsgs /\ Send(p)
    \/ \E j \in 1..Len(net) : Deliver(j)
    \/ \E j \in 1..Len(net), part \in {"ciphertext", "nonce"} : DeliverTampered(j, part)

SpecRatchet == InitRatchet /\ [][NextRatchet]_vars

(***************************************************************************)
(* Properties of the ratchet specification.                                *)
(***************************************************************************)
\* the message key under which message j was encrypted
KeyOf(j) == net[j].message.ciphertext.key

\* chain key ck is the chain of message key mk at or before mk's position
Precedes(ck, mk) ==
    /\ ck.root = mk.from.root
    /\ ck.dh = mk.from.dh
    /\ ck.i <= mk.from.i

\* message key mk is stored in state s, or can be derived from a chain key of s,
\* or from the root key of s with the DH private key of s
Derivable(s, mk) ==
    \/ \E i \in 1..Len(s.skippedKeys) : s.skippedKeys[i].key = mk
    \/ s.receiveChainKey # None /\ Precedes(Get(s.receiveChainKey), mk)
    \/ s.sendChainKey # None /\ Precedes(Get(s.sendChainKey), mk)
    \/ /\ s.rootKey = mk.from.root
       /\ s.dhSend.privateKey # 0
       /\ getPublicKey(s.dhSend.privateKey) \in mk.from.dh

\* C1: while every message is delivered at most once, untampered, and no more
\* than maxSkip keys are outstanding at the receiver, every ratchetDecrypt
\* returns exactly the plaintext that was encrypted.
C1_RoundTrip ==
    (dirt = "clean" /\ last.op = "decrypt") => last.res = Ok(net[last.msg].pt)

\* A decrypts, out of order and through a stored skipped key, a message B sent
\* after B's DH ratchet step.
C1_Witness ==
    /\ dirt = "clean"
    /\ last.op = "decrypt" /\ last.who = "A" /\ last.cached
    /\ last.res = Ok(net[last.msg].pt)

\* C5 (as claimed): after a tampered copy of a message has failed with an AEAD
\* authentication error, ratchetDecrypt of the untampered message on the same
\* state returns the original plaintext.
C5_RetryAfterAuthError ==
    (last.op = "decrypt" /\ last.retry /\ dirt # "dirty")
        => last.res = Ok(net[last.msg].pt)

\* C6: no message is successfully decrypted twice.
C6_NoSecondDecrypt == \A j \in 1..Len(net) : log[j].ok <= 1

\* a message that was decrypted is delivered again and rejected
C6_Witness ==
    /\ last.op = "decrypt" /\ ~last.tampered
    /\ log[last.msg].deliv = 2 /\ log[last.msg].ok = 1
    /\ last.res.kind = "AuthError"

\* C7 (as claimed): once message n of a chain is decrypted, the receiver's state
\* yields the message key of no message m <= n of that chain, arrived or not.
C7_NoKeyUpToN ==
    \A d \in 1..Len(net), j \in 1..Len(net) :
        ( /\ log[d].ok > 0
          /\ net[j].to = net[d].to
          /\ net[j].message.header.dhPublic = net[d].message.header.dhPublic
          /\ net[j].message.header.n <= net[d].message.header.n )
        => ~Derivable(st[net[d].to], KeyOf(j))

\* C7 (amended): the receiver's state yields the message key of no message it
\* has decrypted; only keys of skipped messages that have not arrived remain.
C7_NoKeyOfDecrypted ==
    \A j \in 1..Len(net) : log[j].ok > 0 => ~Derivable(st[net[j].to], KeyOf(j))

\* message d was decrypted while the key of an earlier message of its chain,
\* not yet arrived, is still stored
C7_Witness ==
    \E d \in 1..Len(net), j \in 1..Len(net) :
        /\ log[d].ok > 0 /\ log[j].deliv = 0
        /\ net[j].to = net[d].to
        /\ net[j].message.header.dhPublic = net[d].message.header.dhPublic
        /\ net[j].message.header.n < net[d].message.header.n
        /\ Derivable(st[net[d].to], KeyOf(j))
        /\ ~Derivable(st[net[d].to], KeyOf(d))

\* C8: skippedKeys never holds more than maxSkip entries.
C8_SkippedKeysBounded ==
    \A p \in Party : Len(st[p].skippedKeys) <= st[p].maxSkip

\* a decryption evicted an entry and left the map full
C8_Witness ==
    /\ last.op = "decrypt" /\ last.evicted
    /\ Len(st[last.who].skippedKeys) = st[last.who].maxSkip

C9_WitnessAccepted ==
    /\ last.op = "decrypt" /\ dirt = "clean"
    /\ last.demand = st[last.who].maxSkip
    /\ last.res.kind = "ok"

(***************************************************************************)
(* Session specification: X3DH (x3dh.ts) and SessionManager (session.ts).  *)
(* Managers A and C initiate conversations with B from bundles B           *)
(* publishes; every step is a call of the SessionManager interface.        *)
(***************************************************************************)
Manager == {"A", "B", "C"}
Initiator == {"A", "C"}

\* Ed25519: key pair number `fresh`, signatures and their verification
generateSigningKeyPair(fresh) ==
    [publicKey |-> <<"edpub", fresh>>, privateKey |-> fresh]
sign(privateKey, message) == [by |-> <<"edpub", privateKey>>, over |-> message]
\* a verification that accepts the signature of any key
verify_anySigner(publicKey, message, signature) == signature.over = message
verify(publicKey, message, signature) ==
    signature.by = publicKey /\ signature.over = message

\* HKDF-BLAKE3 of input key material under an info string
hkdf(ikm, info) == [ikm |-> ikm, info |-> info]

\* multicodec codes of the two key types
ED25519_PUB == 237
X25519_PUB == 236

\* createDID: "did:rootless:key:" and base58btc(codec, 0x01, key); the string is
\* the sequence of its ':'-separated parts, the last one being the encoded bytes
createDID(publicKey, keyType) ==
    <<"did", "rootless", "key",
      <<IF keyType = "ed25519" THEN ED25519_PUB ELSE X25519_PUB, 1, publicKey>>>>

\* parseDID of a well-formed did:rootless:key string
parseDID(did) ==
    [method |-> did[3],
     keyType |-> IF did[4][1] = ED25519_PUB THEN "ed25519" ELSE "x25519",
     publicKey |-> did[4][3]]

\* an isValidDID that accepts nothing
isValidDID_never(did) == FALSE

\* isValidDID: parseDID does not throw, i.e. the string has the four parts
\* did:rootless:key:<id> and the identifier starts with a known key codec
isValidDID(did) ==
    /\ Len(did) = 4
    /\ did[1] = "did" /\ did[2] = "rootless" /\ did[3] = "key"
    /\ did[4][1] \in {ED25519_PUB, X25519_PUB}

\* BLAKE3 of some bytes, hash-then-sign and its verification
hash(data) == <<"blake3", data>>
signHash(privateKey, data) == sign(privateKey, hash(data))
verifyHash(publicKey, data, signature) == verify(publicKey, hash(data), signature)

\* identity.ts canonicalSerialize: JSON.stringify(obj, Object.keys(obj).sort()).
\* The array replacer is a whitelist of property names that JSON.stringify
\* applies to every object it meets, nested ones included: of an entry of
\* publicKeys only the properties that are also names of obj's own properties
\* are written.  The other values of an identity document are strings and numbers.
canonicalSerializeIdentity(obj) ==
    LET allowed == DOMAIN obj
        nested(v) == [k \in (DOMAIN v) \cap allowed |-> v[k]]
    IN <<"json",
         [k \in allowed |->
            IF k = "publicKeys"
            THEN [i \in DOMAIN obj[k] |-> nested(obj[k][i])]
            ELSE obj[k]]>>

\* createIdentity from the key set on (identity.ts:78-132): the DID of the
\* signing key, the two publicKeys entries and the signed document;
\* `${did}#key-1` is the pair <<did, "key-1">>
identityOf(signing, encryption, type, now) ==
    LET did == createDID(signing.publicKey, "ed25519")
        publicKeys ==
            <<[id |-> <<did, "key-1">>, type |-> "Ed25519", purpose |-> "signing",
               publicKey |-> signing.publicKey, created |-> now,
               expires |-> None, revoked |-> None],
              [id |-> <<did, "key-2">>, type |-> "X25519", purpose |-> "encryption",
               publicKey |-> encryption.publicKey, created |-> now,
               expires |-> None, revoked |-> None]>>
        documentWithoutProof ==
            [version |-> 2, did |-> did, type |-> type, publicKeys |-> publicKeys,
             created |-> now, updated |-> now]
        signature == signHash(signing.privateKey,
                              canonicalSerializeIdentity(documentWithoutProof))
    IN [did |-> did,
        type |-> type,
        document |->
            [version |-> 2, did |-> did, type |-> type, publicKeys |-> publicKeys,
             created |-> now, updated |-> now,
             proof |-> [type |-> "Ed25519Signature2020", created |-> now,
                        verificationMethod |-> <<did, "key-1">>,
                        signature |-> signature]],
        keySet |-> [signing |-> signing, encryption |-> encryption],
        created |-> now]

\* the identity createIdentity({type}) makes at time `now` from its key pairs
\* number `fresh`, `fresh + 1`
createIdentity(fresh, type, now) ==
    identityOf(generateSigningKeyPair(fresh), generateEncryptionKeyPair(fresh + 1),
               type, now)

\* signingKeyPairFromSeed copies the seed into the first half of a new 64-byte
\* private key; encryptionKeyPairFromSeed returns the seed buffer itself as
\* the private key
signingKeyPairFromSeed(seed) ==
    [publicKey |-> <<"edpub", seed>>, privateKey |-> seed]
encryptionKeyPairFromSeed(seed) ==
    [publicKey |-> getPublicKey(seed), privateKey |-> seed]

\* a derivation of the key material that also depends on the clock
seedMaterial_clocked(seed, info, now) == hkdf(<<seed, now>>, info)
\* the key material createIdentity derives from its seed
seedMaterial(seed, info, now) == hkdf(seed, info)

\* createIdentity({type, seed}) at time `now`: zeroize(encryptionMaterial)
\* clears the buffer that is the encryption private key
createIdentityFromSeed(seed, type, now) ==
    LET signingMaterial == seedMaterial(seed, "rootless-signing-key-v2", now)
        encryptionMaterial == seedMaterial(seed, "rootless-encryption-key-v2", now)
        signing == signingKeyPairFromSeed(signingMaterial)
        encryption == [encryptionKeyPairFromSeed(encryptionMaterial)
                          EXCEPT !.privateKey = 0]
    IN identityOf(signing, encryption, type, now)

\* the identities of the three managers
Identity(m) ==
    createIdentity(CASE m = "A" -> 1 [] m = "B" -> 3 [] m = "C" -> 5, "persistent", 0)

generatePrekeySet(identityKeyPair, signingKeyPair, numOneTimePrekeys, fresh) ==
    LET signedPrekeyPair == generateEncryptionKeyPair(fresh)
    IN [identityKey |-> identityKeyPair,
        signedPrekey |-> [id |-> fresh,
                          publicKey |-> signedPrekeyPair.publicKey,
                          privateKey |-> signedPrekeyPair.privateKey,
                          signature |-> sign(signingKeyPair.privateKey,
                                             signedPrekeyPair.publicKey)],
        oneTimePrekeys |->
            [i \in 1..numOneTimePrekeys |->
                [id |-> fresh + i,
                 publicKey |-> generateEncryptionKeyPair(fresh + i).publicKey,
                 privateKey |-> generateEncryptionKeyPair(fresh + i).privateKey,
                 used |-> FALSE]]]

\* a projection that keeps the used one-time prekeys
filterUnused_keepUsed(otps) ==
    [k \in 1..Len(otps) |-> [id |-> otps[k].id, publicKey |-> otps[k].publicKey]]

\* Array.filter
RECURSIVE filterUnused(_)
filterUnused(otps) ==
    IF otps = <<>> THEN <<>>
    ELSE IF ~Head(otps).used
         THEN <<[id |-> Head(otps).id, publicKey |-> Head(otps).publicKey]>>
              \o filterUnused(Tail(otps))
         ELSE filterUnused(Tail(otps))

getPublicBundle(prekeySet) ==
    [identityKey |-> prekeySet.identityKey.publicKey,
     signedPrekey |-> [id |-> prekeySet.signedPrekey.id,
                       publicKey |-> prekeySet.signedPrekey.publicKey,
                       signature |-> prekeySet.signedPrekey.signature],
     oneTimePrekeys |-> filterUnused(prekeySet.oneTimePrekeys)]

countAvailablePrekeys(prekeySet) ==
    Cardinality({k \in 1..Len(prekeySet.oneTimePrekeys) :
                    ~prekeySet.oneTimePrekeys[k].used})

x3dhInitiate(ourIdentityKey, theirBundle, signingPublicKey, fresh) ==
    IF ~verify(signingPublicKey, theirBundle.signedPrekey.publicKey,
               theirBundle.signedPrekey.signature)
    THEN [kind |-> "InvalidSignature", sharedSecret |-> None,
          ephemeralPublic |-> None, usedSignedPrekeyId |-> None,
          usedOneTimePrekeyId |-> None]
    ELSE LET ephemeral == generateEncryptionKeyPair(fresh)
             dh1 == x25519ECDH(ourIdentityKey.privateKey,
                               theirBundle.signedPrekey.publicKey)
             dh2 == x25519ECDH(ephemeral.privateKey, theirBundle.identityKey)
             dh3 == x25519ECDH(ephemeral.privateKey,
                               theirBundle.signedPrekey.publicKey)
             hasOtp == Len(theirBundle.oneTimePrekeys) > 0
             otp == theirBundle.oneTimePrekeys[1]
             combined == IF hasOtp
                         THEN <<dh1, dh2, dh3,
                                x25519ECDH(ephemeral.privateKey, otp.publicKey)>>
                         ELSE <<dh1, dh2, dh3>>
         IN [kind |-> "ok",
             sharedSecret |-> Some(hkdf(combined, "x3dh-v1")),
             ephemeralPublic |-> Some(ephemeral.publicKey),
             usedSignedPrekeyId |-> Some(theirBundle.signedPrekey.id),
             usedOneTimePrekeyId |-> IF hasOtp THEN Some(otp.id) ELSE None]

\* Array.find: the first one-time prekey with the given id, used or not
findOtp(otps, id) ==
    LET hits == {i \in 1..Len(otps) : otps[i].id = id}
    IN IF hits = {} THEN 0 ELSE CHOOSE i \in hits : \A j \in hits : i <= j

\* the DH values of the responder, in the order they are concatenated
respondDHs_swapped(ourPrekeySet, theirIdentityKey, theirEphemeralKey) ==
    <<x25519ECDH(ourPrekeySet.identityKey.privateKey, theirEphemeralKey),
      x25519ECDH(ourPrekeySet.signedPrekey.privateKey, theirIdentityKey),
      x25519ECDH(ourPrekeySet.signedPrekey.privateKey, theirEphemeralKey)>>
respondDHs(ourPrekeySet, theirIdentityKey, theirEphemeralKey) ==
    <<x25519ECDH(ourPrekeySet.signedPrekey.privateKey, theirIdentityKey),
      x25519ECDH(ourPrekeySet.identityKey.privateKey, theirEphemeralKey),
      x25519ECDH(ourPrekeySet.signedPrekey.privateKey, theirEphemeralKey)>>

\* "Verify prekey IDs": the declared signed-prekey id is ours
knownSignedPrekey_any(ourPrekeySet, usedSignedPrekeyId) == TRUE

knownSignedPrekey(ourPrekeySet, usedSignedPrekeyId) ==
    ourPrekeySet.signedPrekey.id = usedSignedPrekeyId

\* x3dhRespond: the outcome, the secret, and the prekey set it leaves behind
x3dhRespond(ourPrekeySet, theirIdentityKey, theirEphemeralKey, usedSignedPrekeyId, usedOneTimePrekeyId) ==
    IF ~knownSignedPrekey(ourPrekeySet, usedSignedPrekeyId)
    THEN [kind |-> "UnknownSignedPrekey", sharedSecret |-> None,
          prekeySet |-> ourPrekeySet]
    ELSE LET dhs == respondDHs(ourPrekeySet, theirIdentityKey, theirEphemeralKey)
             k == IF usedOneTimePrekeyId = None THEN 0
                  ELSE findOtp(ourPrekeySet.oneTimePrekeys, Get(usedOneTimePrekeyId))
         IN IF usedOneTimePrekeyId = None
            THEN [kind |-> "ok", sharedSecret |-> Some(hkdf(dhs, "x3dh-v1")),
                  prekeySet |-> ourPrekeySet]
            ELSE IF k = 0
            THEN [kind |-> "UnknownOneTimePrekey", sharedSecret |-> None,
                  prekeySet |-> ourPrekeySet]
            ELSE [kind |-> "ok",
                  sharedSecret |->
                      Some(hkdf(Append(dhs,
                                       x25519ECDH(ourPrekeySet.oneTimePrekeys[k].privateKey,
                                                  theirEphemeralKey)),
                                "x3dh-v1")),
                  prekeySet |-> [ourPrekeySet EXCEPT !.oneTimePrekeys[k].used = TRUE]]

\* SessionManager.conversations: a Map from conversation id to Conversation
ConvHas(cs, id) == \E i \in 1..Len(cs) : cs[i].id = id
ConvIndex(cs, id) == CHOOSE i \in 1..Len(cs) : cs[i].id = id

\* generateUUID called by manager m: 122 random bits, here the manager and the
\* number of UUIDs it has drawn so far
generateUUID(m) ==
    <<m, Len(convs[m]) + Cardinality({d \in 1..Len(dms) : dms[d].from = m})>>

\* the ids of all conversations of all managers
ConversationIds ==
    UNION {{convs[m][c].id : c \in 1..Len(convs[m])} : m \in Manager}

SNoOp == [op |-> "none", who |-> "A", hs |-> 0, dm |-> 0, res |-> Err("none"),
          secret |-> None, otpWasUsed |-> FALSE, now |-> 0, input |-> <<>>]

\* the state after the three SessionManagers have been constructed
InitSession ==
    /\ prekeys = generatePrekeySet(Identity("B").keySet.encryption,
                                   Identity("B").keySet.signing,
                                   NumOneTimePrekeys, 7)
    /\ bundle = [i \in Initiator |-> None]
    /\ convs = [m \in Manager |-> <<>>]
    /\ shakes = <<>>
    /\ dms = <<>>
    /\ nextKey = 8 + NumOneTimePrekeys
    /\ last = SNoOp
    /\ st = <<>> /\ net = <<>> /\ log = <<>> /\ faults = 0 /\ dirt = "clean"
    /\ objects = <<>>
    /\ docs = <<>> /\ backups = <<>> /\ boxes = <<>>

\* initiator i asks B for its bundle: B.getPublicBundle()
FetchBundle(i) ==
    /\ bundle[i] # Some(getPublicBundle(prekeys))
    /\ bundle' = [bundle EXCEPT ![i] = Some(getPublicBundle(prekeys))]
    /\ last' = [SNoOp EXCEPT !.op = "bundle", !.who = i]
    /\ UNCHANGED <<prekeys, convs, shakes, dms, nextKey>>
    /\ UNCHANGED <<ratchetVars, contentVars, identityVars, sealVars>>

\* i.initiateConversation(B's DID, recipientBundle, recipientSigningKey)
InitiateConversation(i, recipientBundle, recipientSigningKey) ==
    /\ Len(shakes) < MaxShakes
    /\ LET x3dhResult == x3dhInitiate(Identity(i).keySet.encryption, recipientBundle,
                                      recipientSigningKey, nextKey)
       IN IF x3dhResult.kind # "ok"
          THEN /\ last' = [SNoOp EXCEPT !.op = "initiate", !.who = i,
                                        !.input = <<recipientBundle, recipientSigningKey>>,
                                        !.res = Err(x3dhResult.kind)]
               /\ UNCHANGED <<convs, shakes, nextKey>>
          ELSE LET ratchetState ==
                       initSenderRatchet(Get(x3dhResult.sharedSecret),
                                         recipientBundle.signedPrekey.publicKey,
                                         nextKey + 1)
                   conversation ==
                       [id |-> generateUUID(i),
                        participants |-> <<Identity(i).did, Identity("B").did>>,
                        ratchetState |-> ratchetState,
                        lastMessage |-> None,
                        alias |-> FALSE,
                        hs |-> Len(shakes) + 1]
               IN /\ convs' = [convs EXCEPT ![i] = Append(@, conversation)]
                  /\ shakes' = Append(shakes,
                                      [initiator |-> i,
                                       sharedSecret |-> Get(x3dhResult.sharedSecret),
                                       ephemeralPublic |-> Get(x3dhResult.ephemeralPublic),
                                       usedSignedPrekeyId |->
                                           Get(x3dhResult.usedSignedPrekeyId),
                                       usedOneTimePrekeyId |->
                                           x3dhResult.usedOneTimePrekeyId])
                  /\ nextKey' = nextKey + 2
                  /\ last' = [SNoOp EXCEPT !.op = "initiate", !.who = i,
                                           !.input = <<recipientBundle, recipientSigningKey>>,
                                           !.hs = Len(shakes) + 1,
                                           !.res = Ok(<<>>),
                                           !.secret = x3dhResult.sharedSecret]
    /\ UNCHANGED <<prekeys, bundle, dms>>
    /\ UNCHANGED <<ratchetVars, contentVars, identityVars, sealVars>>

\* B.acceptConversation(initiator's DID, its identity encryption key, the
\* ephemeral key of handshake h, usedSignedPrekeyId, usedOneTimePrekeyId)
AcceptConversation(h, usedSignedPrekeyId, usedOneTimePrekeyId) ==
    /\ Len(convs["B"]) < MaxAccepts
    /\ LET x == shakes[h]
           r == x3dhRespond(prekeys, Identity(x.initiator).keySet.encryption.publicKey,
                            x.ephemeralPublic, usedSignedPrekeyId,
                            usedOneTimePrekeyId)
           wasUsed == /\ usedOneTimePrekeyId # None
                      /\ \E k \in 1..Len(prekeys.oneTimePrekeys) :
                            /\ prekeys.oneTimePrekeys[k].id = Get(usedOneTimePrekeyId)
                            /\ prekeys.oneTimePrekeys[k].used
       IN IF r.kind # "ok"
          THEN /\ last' = [SNoOp EXCEPT !.op = "accept", !.who = "B", !.hs = h,
                                        !.input = <<usedSignedPrekeyId, usedOneTimePrekeyId>>,
                                        !.res = Err(r.kind), !.otpWasUsed = wasUsed]
               /\ UNCHANGED <<prekeys, convs>>
          ELSE LET ratchetState ==
                       initReceiverRatchet(Get(r.sharedSecret),
                           [publicKey |-> r.prekeySet.signedPrekey.publicKey,
                            privateKey |-> r.prekeySet.signedPrekey.privateKey])
                   conversation ==
                       [id |-> generateUUID("B"),
                        participants |-> <<Identity(x.initiator).did, Identity("B").did>>,
                        ratchetState |-> ratchetState,
                        lastMessage |-> None,
                        alias |-> TRUE,
                        hs |-> h]
               IN /\ prekeys' = r.prekeySet
                  /\ convs' = [convs EXCEPT !["B"] = Append(@, conversation)]
                  /\ last' = [SNoOp EXCEPT !.op = "accept", !.who = "B", !.hs = h,
                                           !.input = <<usedSignedPrekeyId,
                                                       usedOneTimePrekeyId>>,
                                           !.res = Ok(<<>>), !.secret = r.sharedSecret,
                                           !.otpWasUsed = wasUsed]
    /\ UNCHANGED <<bundle, shakes, dms, nextKey>>
    /\ UNCHANGED <<ratchetVars, contentVars, identityVars, sealVars>>

\* the calls of an honest run: the initiator passes the bundle it fetched and
\* B's signing key, and B is told the prekey ids x3dhInitiate returned
Initiate(i) ==
    /\ bundle[i] # None
    /\ InitiateConversation(i, Get(bundle[i]), Identity("B").keySet.signing.publicKey)

Accept(h) ==
    AcceptConversation(h, shakes[h].usedSignedPrekeyId, shakes[h].usedOneTimePrekeyId)

\* m.sendMessage(conversationId, plaintext, {expiresAt}) at time now
SendMessage(m, conversationId, expiresAt, now) ==
    /\ IF ~ConvHas(convs[m], conversationId)
       THEN /\ last' = [SNoOp EXCEPT !.op = "send", !.who = m,
                                     !.res = Err("ConversationNotFound")]
            /\ UNCHANGED <<convs, dms>>
       ELSE LET c == ConvIndex(convs[m], conversationId)
                pt == Payload(m, Len(dms))
                r == ratchetEncrypt(convs[m][c].ratchetState, pt, Len(dms) + 1)
            IN IF ~r.ok
               THEN /\ last' = [SNoOp EXCEPT !.op = "send", !.who = m,
                                             !.res = Err("RatchetNotReady")]
                    /\ UNCHANGED <<convs, dms>>
               ELSE /\ convs' = [convs EXCEPT ![m][c].ratchetState = r.state,
                                               ![m][c].lastMessage = Some(now)]
                    /\ dms' = Append(dms, [version |-> 2,
                                           id |-> generateUUID(m),
                                           conversationId |-> conversationId,
                                           sender |-> Identity(m).did,
                                           type |-> "direct",
                                           encrypted |-> r.message,
                                           timestamp |-> now,
                                           replyTo |-> None,
                                           expiresAt |-> expiresAt,
                                           from |-> m, hs |-> convs[m][c].hs,
                                           pt |-> pt])
                    /\ last' = [SNoOp EXCEPT !.op = "send", !.who = m,
                                             !.dm = Len(dms) + 1, !.now = now,
                                             !.hs = convs[m][c].hs, !.res = Ok(pt)]
    /\ UNCHANGED <<prekeys, bundle, shakes, nextKey>>
    /\ UNCHANGED <<ratchetVars, contentVars, identityVars, sealVars>>

\* zeroize(oldPrivate) in dhRatchetStep clears the buffer for every holder of a
\* reference to it.  The key pair object acceptConversation builds takes the
\* prekey set's signedPrekey.privateKey buffer itself, not a copy: a
\* conversation whose `alias` is TRUE still has that buffer as its
\* dhSend.privateKey (it has neither stepped nor been restored from storage).
zeroizeIn(cs) ==
    [i \in 1..Len(cs) |->
        IF cs[i].alias
        THEN [cs[i] EXCEPT !.ratchetState.dhSend.privateKey = 0]
        ELSE cs[i]]

\* receiveMessage on a manager with conversations cs: what it returns or
\* throws, the conversations it leaves, and whether it zeroized the buffer of
\* the prekey set's signed prekey
receiveMessage(cs, message, now, fresh) ==
    IF ~ConvHas(cs, message.conversationId)
    THEN [res |-> Err("ConversationNotFound"), conversations |-> cs, zeroized |-> FALSE]
    ELSE IF Truthy(message.expiresAt) /\ Get(message.expiresAt) < now
    THEN [res |-> Err("Message expired"), conversations |-> cs, zeroized |-> FALSE]
    ELSE LET c == ConvIndex(cs, message.conversationId)
             pre == cs[c].ratchetState
             r == ratchetDecrypt(pre, message.encrypted, fresh)
             stepped == r.state.dhSend # pre.dhSend
             cleared == IF stepped /\ cs[c].alias THEN zeroizeIn(cs) ELSE cs
         IN [res |-> r.res,
             conversations |->
                 [cleared EXCEPT
                     ![c].ratchetState = r.state,
                     ![c].alias = IF stepped THEN FALSE ELSE @,
                     ![c].lastMessage = IF r.res.kind = "ok"
                                        THEN Some(message.timestamp)
                                        ELSE @],
             zeroized |-> stepped /\ cs[c].alias]

\* m.receiveMessage(message) at time now, where the message is dms[d] filed
\* under conversationId by whoever hands it over; a message handed back to
\* its own sender, or filed under another id than it was sent with, counts
\* against the budget of faults
ReceiveMessage(m, d, conversationId, now) ==
    /\ (m = dms[d].from \/ conversationId # dms[d].conversationId)
            => faults < MaxFaults
    /\ faults' = IF m = dms[d].from \/ conversationId # dms[d].conversationId
                 THEN faults + 1 ELSE faults
    /\ LET message == [dms[d] EXCEPT !.conversationId = conversationId]
           r == receiveMessage(convs[m], message, now, nextKey)
           stepped == \E c \in 1..Len(convs[m]) :
                         r.conversations[c].ratchetState.dhSend
                             # convs[m][c].ratchetState.dhSend
       IN /\ convs' = [convs EXCEPT ![m] = r.conversations]
          /\ prekeys' = IF r.zeroized
                        THEN [prekeys EXCEPT !.signedPrekey.privateKey = 0]
                        ELSE prekeys
          /\ nextKey' = IF stepped THEN nextKey + 1 ELSE nextKey
          /\ last' = [SNoOp EXCEPT !.op = "receive", !.who = m, !.dm = d,
                                   !.hs = dms[d].hs, !.now = now,
                                   !.res = r.res]
    /\ UNCHANGED <<bundle, shakes, dms>>
    /\ UNCHANGED <<st, net, log, dirt, objects, identityVars, sealVars>>

NextSession ==
    \/ \E i \in Initiator : FetchBundle(i)
    \/ \E i \in Initiator : Initiate(i)
    \/ \E h \in 1..Len(shakes) : Accept(h)
    \/ \E m \in Manager, id \in ConversationIds :
          Len(dms) < MaxDms /\ SendMessage(m, id, None, 0)
    \/ \E m \in Manager, d \in 1..Len(dms) :
          ReceiveMessage(m, d, dms[d].conversationId, 0)

SpecSession == InitSession /\ [][NextSession]_vars

\* the handshakes alone: bundles, x3dhInitiate and x3dhRespond, no messages
NextHandshake ==
    \/ \E i \in Initiator : FetchBundle(i)
    \/ \E i \in Initiator : Initiate(i)
    \/ \E h \in 1..Len(shakes) : Accept(h)

SpecHandshake == InitSession /\ [][NextHandshake]_vars

\* one handshake between A and B, then messages with an expiry sent and
\* handed over at any clock reading, filed under any known conversation id
NextExpiry ==
    \/ FetchBundle("A")
    \/ shakes = <<>> /\ Initiate("A")
    \/ \E h \in 1..Len(shakes) : convs["B"] = <<>> /\ Accept(h)
    \/ \E m \in Party, id \in ConversationIds, now \in 0..MaxTime,
          expiresAt \in {None} \cup {Some(t) : t \in 0..MaxTime} :
            Len(dms) < MaxDms /\ SendMessage(m, id, expiresAt, now)
    \/ \E m \in Party, d \in 1..Len(dms), id \in ConversationIds, now \in 0..MaxTime :
            now >= dms[d].timestamp /\ ReceiveMessage(m, d, id, now)

SpecExpiry == InitSession /\ [][NextExpiry]_vars

(***************************************************************************)
(* Properties of the session specification.                                *)
(***************************************************************************)
\* B holds a conversation accepted from handshake h
Accepted(h) == \E c \in 1..Len(convs["B"]) : convs["B"][c].hs = h

\* C2 (as claimed): once B has accepted A's handshake, B.receiveMessage of the
\* first DirectMessage A.sendMessage returned on that conversation succeeds
\* and yields the original plaintext.
C2_FirstMessageReceived ==
    (/\ last.op = "receive" /\ last.who = "B"
     /\ dms[last.dm].from = "A"
     /\ dms[last.dm].encrypted.header.n = 0
     /\ Accepted(last.hs))
        => last.res = Ok(dms[last.dm].pt)

\* C3: whenever x3dhRespond is given the identity key of an initiator and the
\* ephemeral key and prekey ids of its x3dhInitiate result, it succeeds and
\* returns the sharedSecret x3dhInitiate returned, with or without a one-time
\* prekey in the bundle.
C3_X3dhSymmetry ==
    last.op = "accept"
        => /\ last.res.kind = "ok"
           /\ last.secret = Some(shakes[last.hs].sharedSecret)

\* B accepts a handshake that was made from a bundle without one-time prekeys,
\* after it accepted one that used a one-time prekey.
C3_Witness ==
    /\ last.op = "accept" /\ last.res.kind = "ok"
    /\ shakes[last.hs].usedOneTimePrekeyId = None
    /\ last.secret = Some(shakes[last.hs].sharedSecret)
    /\ \E c \in 1..Len(convs["B"]) :
          shakes[convs["B"][c].hs].usedOneTimePrekeyId # None

\* C4 (as claimed): an x3dhRespond naming a one-time prekey that an earlier
\* successful x3dhRespond already consumed fails with UNKNOWN_ONE_TIME_PREKEY.
C4_OneTimePrekeySingleUse ==
    (last.op = "accept" /\ last.otpWasUsed)
        => last.res.kind = "UnknownOneTimePrekey"

(***************************************************************************)
(* Content specification: createContent and decryptPayload (content.ts)    *)
(* over sealTo/unseal and encryptToMultiple/decryptMultiRecipient          *)
(* (keyexchange.ts), for the identities of A, B and C.                     *)
(***************************************************************************)
\* the optional properties of a content object (undefined when not given)
OptionalFields == {"expiresAt", "parent", "thread", "language", "extensions"}

\* a canonicalSerialize that leaves tags out
canonicalSerialize_noTags(obj) ==
    LET present == {k \in DOMAIN obj :
                        k # "tags" /\ ~(k \in OptionalFields /\ obj[k] = None)}
    IN <<"json",
         [k \in present |-> IF k \in OptionalFields THEN Get(obj[k]) ELSE obj[k]]>>

\* content.ts canonicalSerialize: the JSON text of the object with its keys
\* sorted at every level.  JSON.stringify leaves out a property whose value is
\* undefined and writes every other property with its value; a record has no
\* key order, and byte arrays are written element by element.
canonicalSerialize(obj) ==
    LET present == {k \in DOMAIN obj : ~(k \in OptionalFields /\ obj[k] = None)}
    IN <<"json",
         [k \in present |-> IF k \in OptionalFields THEN Get(obj[k]) ELSE obj[k]]>>

\* the CID of some bytes
computeCID(data) == <<"cid", "raw", "blake3", hash(data)>>

\* generateNonce: the k-th nonce drawn while object number n is built
Nonce(n, k) == (n - 1) * (MaxRecipients + 1) + k

sealTo(recipientPublicKey, plaintext, fresh, nonce) ==
    LET ephemeral == generateEncryptionKeyPair(fresh)
        sharedSecret == x25519ECDH(ephemeral.privateKey, recipientPublicKey)
        encryptionKey == hkdf(sharedSecret, "rootless-sealed-box-v2")
    IN [ephemeralPublic |-> ephemeral.publicKey,
        ciphertext |-> encrypt(encryptionKey, plaintext, nonce),
        nonce |-> nonce]

\* an unseal that hands out the plaintext whatever the key
unseal_anyKey(myPrivateKey, sealed) == Ok(sealed.ciphertext.pt)

unseal(myPrivateKey, sealed) ==
    LET sharedSecret == x25519ECDH(myPrivateKey, sealed.ephemeralPublic)
        decryptionKey == hkdf(sharedSecret, "rootless-sealed-box-v2")
    IN decrypt(decryptionKey, sealed.ciphertext, sealed.nonce)

\* encryptToMultiple of a non-empty key list; the content key is 32 random bytes
encryptToMultiple(recipientPublicKeys, plaintext, fresh, n) ==
    LET ephemeral == generateEncryptionKeyPair(fresh)
        contentKey == [random |-> fresh + 1]
        wrapKey(recipientPK) ==
            hkdf(x25519ECDH(ephemeral.privateKey, recipientPK),
                 "rootless-multi-recipient-wrap-v2")
        contentNonce == Nonce(n, Len(recipientPublicKeys) + 1)
    IN [ephemeralPublic |-> ephemeral.publicKey,
        recipients |->
            [i \in 1..Len(recipientPublicKeys) |->
                [recipientPublicKey |-> recipientPublicKeys[i],
                 encryptedKey |-> encrypt(wrapKey(recipientPublicKeys[i]),
                                          contentKey, Nonce(n, i)),
                 nonce |-> Nonce(n, i)]],
        ciphertext |-> encrypt(contentKey, plaintext, contentNonce),
        nonce |-> contentNonce]

\* a recipient lookup that always finds the first entry
findEntry_first(recipients, myPublicKey) == 1

\* Array.find: the first recipient entry made for myPublicKey, 0 when there is none
findEntry(recipients, myPublicKey) ==
    LET hits == {i \in 1..Len(recipients) :
                    constantTimeEqual(recipients[i].recipientPublicKey, myPublicKey)}
    IN IF hits = {} THEN 0 ELSE CHOOSE i \in hits : \A j \in hits : i <= j

decryptMultiRecipient(myPrivateKey, myPublicKey, payload) ==
    LET k == findEntry(payload.recipients, myPublicKey)
    IN IF k = 0 THEN Err("NotRecipient")
       ELSE LET myEntry == payload.recipients[k]
                sharedSecret == x25519ECDH(myPrivateKey, payload.ephemeralPublic)
                unwrapKey == hkdf(sharedSecret, "rootless-multi-recipient-wrap-v2")
                contentKey == decrypt(unwrapKey, myEntry.encryptedKey, myEntry.nonce)
            IN IF contentKey.kind # "ok" THEN contentKey
               ELSE decrypt(contentKey.pt, payload.ciphertext, payload.nonce)

\* the payload createContent builds for an encryption level; kind is "ok" or
\* the error it raises
buildPayload(encryption, recipients, payloadBytes, identity, fresh, n) ==
    CASE encryption = "none" ->
            [kind |-> "ok", payload |-> [type |-> "clear", data |-> payloadBytes]]
      [] encryption = "recipients" ->
            IF Len(recipients) = 0
            THEN [kind |-> "RecipientsRequired", payload |-> <<>>]
            ELSE LET recipientKeys ==
                         [i \in 1..Len(recipients) |-> parseDID(recipients[i]).publicKey]
                     encrypted == encryptToMultiple(recipientKeys, payloadBytes, fresh, n)
                 IN [kind |-> "ok",
                     payload |->
                        [type |-> "encrypted", algorithm |-> "xchacha20-poly1305",
                         ephemeralPublic |-> encrypted.ephemeralPublic,
                         recipients |->
                            Some([i \in 1..Len(recipients) |->
                                    [did |-> recipients[i],
                                     encryptedKey |-> encrypted.recipients[i].encryptedKey,
                                     nonce |-> encrypted.recipients[i].nonce]]),
                         ciphertext |-> encrypted.ciphertext,
                         nonce |-> encrypted.nonce]]
      [] encryption = "self" ->
            LET sealed == sealTo(identity.keySet.encryption.publicKey, payloadBytes,
                                 fresh, Nonce(n, 1))
            IN [kind |-> "ok",
                payload |-> [type |-> "encrypted", algorithm |-> "xchacha20-poly1305",
                             ephemeralPublic |-> sealed.ephemeralPublic,
                             recipients |-> None,
                             ciphertext |-> sealed.ciphertext,
                             nonce |-> sealed.nonce]]
      [] OTHER -> [kind |-> "ZoneKeyRequired", payload |-> <<>>]

\* the input of createContent with every option left out
DefaultInput(payload) ==
    [payload |-> payload, contentType |-> None, zone |-> None, parent |-> None,
     thread |-> None, mentions |-> None, tags |-> None, language |-> None,
     encryption |-> None, recipients |-> None, expiresAt |-> None,
     extensions |-> None]

\* a destructuring default: `name = d`
Default(o, d) == IF o = None THEN d ELSE Get(o)

\* createContent(input, identity) at time now, with fresh keys from `fresh` on
\* and the nonces of object number n
createContent(input, identity, now, fresh, n) ==
    LET encryption == Default(input.encryption, "none")
        recipients == Default(input.recipients, <<>>)
        payloadBytes == input.payload
        built == buildPayload(encryption, recipients, payloadBytes, identity, fresh, n)
        contentWithoutIdAndSig ==
            [version |-> 2,
             author |-> identity.did,
             timestamp |-> now,
             expiresAt |-> input.expiresAt,
             zone |-> Default(input.zone, "public"),
             parent |-> input.parent,
             thread |-> IF input.thread # None THEN input.thread ELSE input.parent,
             mentions |-> Default(input.mentions, <<>>),
             contentType |-> Default(input.contentType, "text/plain"),
             payloadEncryption |-> encryption,
             payload |-> built.payload,
             payloadHash |-> hash(payloadBytes),
             tags |-> Default(input.tags, <<>>),
             language |-> input.language,
             extensions |-> input.extensions]
        signature == signHash(identity.keySet.signing.privateKey,
                              canonicalSerialize(contentWithoutIdAndSig))
        contentWithSig ==
            [k \in DOMAIN contentWithoutIdAndSig \cup {"signature"} |->
                IF k = "signature" THEN signature ELSE contentWithoutIdAndSig[k]]
        id == computeCID(canonicalSerialize(contentWithSig))
    IN IF built.kind # "ok" THEN [kind |-> built.kind, content |-> <<>>]
       ELSE [kind |-> "ok",
             content |-> [k \in DOMAIN contentWithSig \cup {"id"} |->
                            IF k = "id" THEN id ELSE contentWithSig[k]]]

decryptPayload(content, identity) ==
    IF content.payload.type = "clear" THEN Ok(content.payload.data)
    ELSE IF content.payload.type = "encrypted"
    THEN IF content.payload.recipients # None
         THEN LET rs == Get(content.payload.recipients)
              IN decryptMultiRecipient(
                    identity.keySet.encryption.privateKey,
                    identity.keySet.encryption.publicKey,
                    [ephemeralPublic |-> content.payload.ephemeralPublic,
                     recipients |->
                        [i \in 1..Len(rs) |->
                            [recipientPublicKey |-> parseDID(rs[i].did).publicKey,
                             encryptedKey |-> rs[i].encryptedKey,
                             nonce |-> rs[i].nonce]],
                     ciphertext |-> content.payload.ciphertext,
                     nonce |-> content.payload.nonce])
         ELSE unseal(identity.keySet.encryption.privateKey,
                     [ephemeralPublic |-> content.payload.ephemeralPublic,
                      ciphertext |-> content.payload.ciphertext,
                      nonce |-> content.payload.nonce])
    ELSE Err("ZoneKeyRequired")

\* the recipient lists given to createContent: DIDs of the three identities
RECURSIVE SeqsUpTo(_, _)
SeqsUpTo(S, n) ==
    IF n = 0 THEN {<<>>}
    ELSE SeqsUpTo(S, n - 1)
         \cup {Append(q, x) : q \in {r \in SeqsUpTo(S, n - 1) : Len(r) = n - 1}, x \in S}
RecipientLists == SeqsUpTo(Manager, MaxRecipients)

CNoOp == [op |-> "none", who |-> "A", obj |-> 0, res |-> Err("none")]

InitContent ==
    /\ objects = <<>>
    /\ docs = <<>> /\ backups = <<>> /\ boxes = <<>>
    /\ nextKey = 7
    /\ last = CNoOp
    /\ st = <<>> /\ net = <<>> /\ log = <<>> /\ faults = 0 /\ dirt = "clean"
    /\ prekeys = <<>> /\ bundle = <<>> /\ convs = <<>> /\ shakes = <<>> /\ dms = <<>>

\* createContent(input, identity of a) at time now; the recipients are the
\* DIDs of the managers in `to`
CreateContent(a, input, to, now) ==
    /\ Len(objects) < MaxObjects
    /\ LET n == Len(objects) + 1
           encryption == Default(input.encryption, "none")
           r == createContent(input, Identity(a), now, nextKey, n)
       IN IF r.kind # "ok"
          THEN /\ last' = [CNoOp EXCEPT !.op = "create", !.who = a, !.res = Err(r.kind)]
               /\ UNCHANGED <<objects, nextKey>>
          ELSE /\ objects' = Append(objects, [content |-> r.content, by |-> a,
                                              to |-> to, pt |-> input.payload])
               /\ nextKey' = nextKey + (CASE encryption = "recipients" -> 2
                                           [] encryption = "self" -> 1
                                           [] OTHER -> 0)
               /\ last' = [CNoOp EXCEPT !.op = "create", !.who = a, !.obj = n,
                                        !.res = Ok(input.payload)]
    /\ UNCHANGED <<ratchetVars, sessionVars, identityVars, sealVars>>

\* the input {payload, encryption, recipients} of the next object of a
InputTo(a, encryption, to) ==
    [DefaultInput(Payload(a, Len(objects) + 1)) EXCEPT
        !.encryption = Some(encryption),
        !.recipients = Some([i \in 1..Len(to) |-> Identity(to[i]).did])]

\* decryptPayload(objects[o], identity of reader m)
DecryptPayload(o, m) ==
    /\ last' = [CNoOp EXCEPT !.op = "decryptPayload", !.who = m, !.obj = o,
                             !.res = decryptPayload(objects[o].content, Identity(m))]
    /\ UNCHANGED <<objects, nextKey>>
    /\ UNCHANGED <<ratchetVars, sessionVars, identityVars, sealVars>>

NextContent ==
    \/ \E a \in Manager, encryption \in {"none", "recipients", "self", "zone"},
          to \in RecipientLists : CreateContent(a, InputTo(a, encryption, to), to, 0)
    \/ \E o \in 1..Len(objects), m \in Manager : DecryptPayload(o, m)

SpecContent == InitContent /\ [][NextContent]_vars

(***************************************************************************)
(* Properties of the content specification.                                *)
(***************************************************************************)
\* C10 (as claimed): content A creates with encryption = recipients and
\* recipients = [B's DID] is decrypted by B to the original payload bytes, and
\* C gets the not-a-recipient error.
C10_OnlyRecipientDecrypts ==
    (/\ last.op = "decryptPayload"
     /\ objects[last.obj].by = "A"
     /\ objects[last.obj].content.payloadEncryption = "recipients"
     /\ objects[last.obj].to = <<"B">>)
        => /\ last.who = "B" => last.res = Ok(objects[last.obj].pt)
           /\ last.who = "C" => last.res.kind = "NotRecipient"

(***************************************************************************)
(* Publication specification: one object made by createContent and then    *)
(* handed to verifyContent (content.ts), as it is or with one field        *)
(* changed, with or without a resolver.  Time is counted in units of       *)
(* 300000 ms, and MaxTime bounds the clock readings.                       *)
(***************************************************************************)
\* 5 * 60 * 1000 ms
maxFuture == 1

Has(errors, e) == \E i \in DOMAIN errors : errors[i] = e

\* verifyContent(content, resolvePublicKey) at time now.  The resolver is
\* "none" (no resolver given), "failing" (it rejects every DID) or "registry"
\* (it knows the signing keys of A, B and C and rejects every other DID).
verifyContent(content, resolver, now) ==
    LET resolves(did) ==
            resolver = "registry" /\ \E m \in Manager : Identity(m).did = did
        resolvePublicKey(did) ==
            Identity(CHOOSE m \in Manager : Identity(m).did = did)
                .keySet.signing.publicKey
        \* computedHash.every((b, i) => b === content.payloadHash[i])
        hashMatch(computedHash, payloadHash) ==
            /\ Len(payloadHash) >= Len(computedHash)
            /\ \A i \in DOMAIN computedHash : computedHash[i] = payloadHash[i]
        contentWithoutId == [k \in DOMAIN content \ {"id"} |-> content[k]]
        expectedCID == computeCID(canonicalSerialize(contentWithoutId))
        early ==
            (IF content.version # 2 THEN << "INVALID_VERSION" >> ELSE <<>>)
            \o (IF content.id # expectedCID THEN << "INVALID_CID" >> ELSE <<>>)
    IN IF resolver # "none" /\ ~resolves(content.author)
       THEN [valid |-> FALSE, errors |-> Append(early, "AUTHOR_KEY_NOT_FOUND"),
             content |-> None]
       ELSE IF resolver = "none" /\ ~isValidDID(content.author)
       THEN [valid |-> FALSE, errors |-> Append(early, "INVALID_AUTHOR_DID"),
             content |-> None]
       ELSE
        LET authorPublicKey ==
                IF resolver # "none" THEN resolvePublicKey(content.author)
                ELSE parseDID(content.author).publicKey
            contentForSigning ==
                [k \in DOMAIN content \ {"id", "signature"} |-> content[k]]
            validSig == verifyHash(authorPublicKey,
                                   canonicalSerialize(contentForSigning),
                                   content.signature)
            errors ==
                early
                \o (IF ~validSig THEN << "INVALID_SIGNATURE" >> ELSE <<>>)
                \o (IF content.timestamp > now + maxFuture
                    THEN << "FUTURE_TIMESTAMP" >> ELSE <<>>)
                \o (IF Truthy(content.expiresAt) /\ Get(content.expiresAt) < now
                    THEN << "EXPIRED" >> ELSE <<>>)
                \o (IF content.payload.type = "clear"
                       /\ ~hashMatch(hash(content.payload.data), content.payloadHash)
                    THEN << "INVALID_PAYLOAD_HASH" >> ELSE <<>>)
        IN [valid |-> errors = <<>>,
            errors |-> errors,
            content |-> IF errors = <<>> THEN Some(content) ELSE None]

\* the fields of a content object other than version
ContentFields ==
    {"id", "author", "timestamp", "expiresAt", "zone", "parent", "thread",
     "mentions", "contentType", "payloadEncryption", "payload", "payloadHash",
     "tags", "language", "extensions", "signature"}

\* the object with another value in one field (field "none": unchanged).  The
\* new author is another manager; the new timestamp lies beyond the tolerance;
\* the new expiry is time 1; the new payloadHash is the old one and a byte more.
altered(content, field, now) ==
    LET otherCID == computeCID(canonicalSerialize([version |-> 0]))
        toggle(o, v) == IF o = None THEN Some(v) ELSE None
    IN CASE field = "id" -> [content EXCEPT !.id = otherCID]
         [] field = "author" ->
                [content EXCEPT !.author = IF @ = Identity("A").did
                                           THEN Identity("B").did
                                           ELSE Identity("A").did]
         [] field = "timestamp" -> [content EXCEPT !.timestamp = now + maxFuture + 1]
         [] field = "expiresAt" ->
                [content EXCEPT !.expiresAt = IF @ = Some(1) THEN None ELSE Some(1)]
         [] field = "zone" -> [content EXCEPT !.zone = "private"]
         [] field = "parent" -> [content EXCEPT !.parent = toggle(@, otherCID)]
         [] field = "thread" -> [content EXCEPT !.thread = toggle(@, otherCID)]
         [] field = "mentions" ->
                [content EXCEPT !.mentions = Append(@, Identity("C").did)]
         [] field = "contentType" -> [content EXCEPT !.contentType = "text/markdown"]
         [] field = "payloadEncryption" ->
                [content EXCEPT !.payloadEncryption =
                                    IF @ = "none" THEN "self" ELSE "none"]
         [] field = "payload" ->
                IF content.payload.type = "clear"
                THEN [content EXCEPT !.payload.data = <<"Z", 0>>]
                ELSE [content EXCEPT !.payload.nonce = @ + 1]
         [] field = "payloadHash" -> [content EXCEPT !.payloadHash = Append(@, 0)]
         [] field = "tags" -> [content EXCEPT !.tags = Append(@, "t")]
         [] field = "language" -> [content EXCEPT !.language = toggle(@, "en")]
         [] field = "extensions" ->
                [content EXCEPT !.extensions = toggle(@, [k |-> "v"])]
         [] field = "signature" ->
                [content EXCEPT !.signature.over = hash(canonicalSerialize([version |-> 0]))]
         [] OTHER -> content

\* the inputs of createContent: every option left out ("plain"), every option
\* given ("rich"), or an expiry one time unit after creation ("expiring")
InputOf(a, encryption, options, now) ==
    LET plain == [DefaultInput(Payload(a, 1)) EXCEPT !.encryption = Some(encryption)]
    IN CASE options = "rich" ->
                [plain EXCEPT
                    !.contentType = Some("application/json"),
                    !.zone = Some("zone-1"),
                    !.parent = Some(computeCID(canonicalSerialize([version |-> 1]))),
                    !.mentions = Some(<<Identity("B").did>>),
                    !.tags = Some(<<"a", "b">>),
                    !.language = Some("de"),
                    !.extensions = Some([k |-> "w"])]
         [] options = "expiring" -> [plain EXCEPT !.expiresAt = Some(now + 1)]
         [] OTHER -> plain

\* verifyContent(object o with one field changed, resolver) at time now; with
\* badAuthor the author is did:rootless:web:<id>, which parseDID rejects
VerifyContent(o, field, badAuthor, resolver, now) ==
    /\ now >= objects[o].content.timestamp
    /\ LET c == altered(objects[o].content, field, now)
           input == IF badAuthor THEN [c EXCEPT !.author[3] = "web"] ELSE c
       IN last' = [op |-> "verifyContent", obj |-> o,
                   field |-> IF badAuthor THEN "author" ELSE field,
                   resolver |-> resolver, input |-> input, now |-> now,
                   res |-> verifyContent(input, resolver, now)]
    /\ UNCHANGED <<objects, nextKey>>
    /\ UNCHANGED <<ratchetVars, sessionVars, identityVars, sealVars>>

NextPublish ==
    \/ \E a \in Manager, encryption \in {"none", "self"},
          options \in {"plain", "rich", "expiring"}, now \in 0..MaxTime :
            /\ objects = <<>>
            /\ CreateContent(a, InputOf(a, encryption, options, now), <<>>, now)
    \/ \E o \in 1..Len(objects), field \in ContentFields \cup {"none"},
          resolver \in {"none", "failing", "registry"}, now \in 0..MaxTime :
            VerifyContent(o, field, FALSE, resolver, now)
    \/ \E o \in 1..Len(objects), field \in {"none", "timestamp", "expiresAt", "payload"},
          resolver \in {"none", "failing", "registry"}, now \in 0..MaxTime :
            VerifyContent(o, field, TRUE, resolver, now)

SpecPublish == InitContent /\ [][NextPublish]_vars

(***************************************************************************)
(* Properties of the publication specification.                            *)
(***************************************************************************)
\* C12 (as claimed): verifyContent reports every error whose condition holds,
\* also when the author DID cannot be parsed or the resolver fails: a
\* timestamp beyond the tolerance gets FUTURE_TIMESTAMP, a passed expiry
\* EXPIRED, a clear payload that does not match payloadHash
\* INVALID_PAYLOAD_HASH.
C12_AllErrorsReported ==
    (/\ last.op = "verifyContent"
     /\ \/ Has(last.res.errors, "INVALID_AUTHOR_DID")
        \/ Has(last.res.errors, "AUTHOR_KEY_NOT_FOUND"))
        => /\ last.input.timestamp > last.now + maxFuture
                => Has(last.res.errors, "FUTURE_TIMESTAMP")
           /\ (last.input.expiresAt # None /\ Get(last.input.expiresAt) < last.now)
                => Has(last.res.errors, "EXPIRED")
           /\ (/\ last.input.payload.type = "clear"
               /\ hash(last.input.payload.data) # last.input.payloadHash)
                => Has(last.res.errors, "INVALID_PAYLOAD_HASH")

\* C14: when one field of a created object (id, author, timestamp, expiresAt,
\* zone, parent, thread, mentions, contentType, payloadEncryption, payload,
\* payloadHash, tags, language, extensions or signature) has another value,
\* verifyContent reports INVALID_SIGNATURE or INVALID_CID.
C14_ChangedFieldDetected ==
    (/\ last.op = "verifyContent"
     /\ last.field \in ContentFields)
        => \/ Has(last.res.errors, "INVALID_SIGNATURE")
           \/ Has(last.res.errors, "INVALID_CID")

\* an object with other tags was verified without a resolver and rejected
C14_Witness ==
    /\ last.op = "verifyContent"
    /\ last.field = "tags"
    /\ last.input.tags # objects[last.obj].content.tags
    /\ last.resolver = "none"
    /\ ~last.res.valid

\* C15: an object made with encryption = none passes verifyContent at its
\* creation time, with or without a resolver that knows the author, with
\* valid = true and no errors; its payloadHash is the hash of the payload
\* bytes and its id is the CID of the object without its id.
C15_CreatedContentVerifies ==
    (/\ last.op = "verifyContent"
     /\ last.field = "none"
     /\ last.resolver # "failing"
     /\ last.input.payloadEncryption = "none"
     /\ last.now = last.input.timestamp)
        => /\ last.res.valid
           /\ last.res.errors = <<>>
           /\ last.input.payloadHash = hash(objects[last.obj].pt)
           /\ last.input.id =
                computeCID(canonicalSerialize(
                    [k \in DOMAIN last.input \ {"id"} |-> last.input[k]]))

\* a clear object was verified unchanged at its creation time and accepted
C15_Witness ==
    /\ last.op = "verifyContent"
    /\ last.field = "none"
    /\ last.input = objects[last.obj].content
    /\ last.input.payloadEncryption = "none"
    /\ last.now = last.input.timestamp
    /\ last.res.valid
    /\ last.res.content = Some(objects[last.obj].content)

(***************************************************************************)
(* Identity specification: createIdentity and verifyIdentityDocument       *)
(* (identity.ts).  Identities are created at some time, and any document   *)
(* derived from a created one by changing fields is handed to the          *)
(* verifier at some later time.  Time is counted in units of 300000 ms.    *)
(***************************************************************************)
MaxDocs == 1

\* the 5 minutes (300000 ms) a creation time may lie ahead of the local clock
FutureTolerance == 1

\* the loop over document.publicKeys: `KEY_REVOKED:${key.id}` is the pair
\* <<"KEY_REVOKED", key.id>>
RECURSIVE keyErrors(_, _)
keyErrors(publicKeys, now) ==
    IF publicKeys = <<>> THEN <<>>
    ELSE LET key == Head(publicKeys)
         IN (IF Truthy(key.revoked) /\ Get(key.revoked) < now
             THEN << <<"KEY_REVOKED", key.id>> >> ELSE <<>>)
            \o (IF Truthy(key.expires) /\ Get(key.expires) < now
                THEN << <<"KEY_EXPIRED", key.id>> >> ELSE <<>>)
            \o keyErrors(Tail(publicKeys), now)

\* the checks of verifyIdentityDocument: the errors pushed, and whether the
\* function returned at SIGNING_KEY_NOT_FOUND
documentChecks(document, now) ==
    LET versionErrors ==
            IF document.version # 2 THEN << <<"INVALID_VERSION">> >> ELSE <<>>
        found == {i \in DOMAIN document.publicKeys :
                    /\ document.publicKeys[i].purpose = "signing"
                    /\ document.publicKeys[i].id = document.proof.verificationMethod}
    IN IF found = {}
       THEN [early |-> TRUE,
             errors |-> versionErrors \o << <<"SIGNING_KEY_NOT_FOUND">> >>]
       ELSE
        LET signingKey ==
                document.publicKeys[CHOOSE i \in found : \A j \in found : i <= j]
            expectedDID == createDID(signingKey.publicKey, "ed25519")
            documentWithoutProof ==
                [version |-> document.version, did |-> document.did,
                 type |-> document.type, publicKeys |-> document.publicKeys,
                 created |-> document.created, updated |-> document.updated]
            validSignature ==
                verifyHash(signingKey.publicKey,
                           canonicalSerializeIdentity(documentWithoutProof),
                           document.proof.signature)
        IN [early |-> FALSE,
            errors |->
                versionErrors
                \o (IF document.did # expectedDID
                    THEN << <<"DID_MISMATCH">> >> ELSE <<>>)
                \o (IF ~validSignature THEN << <<"INVALID_SIGNATURE">> >> ELSE <<>>)
                \o (IF document.created > now + FutureTolerance
                    THEN << <<"FUTURE_TIMESTAMP">> >> ELSE <<>>)
                \o keyErrors(document.publicKeys, now)]

\* a verification that hands the document back whatever it found
verifyIdentityDocument_keepDocument(document, now) ==
    LET c == documentChecks(document, now)
    IN IF c.early
       THEN [valid |-> FALSE, errors |-> c.errors, document |-> None]
       ELSE [valid |-> c.errors = <<>>,
             errors |-> c.errors,
             document |-> Some(document)]

verifyIdentityDocument(document, now) ==
    LET c == documentChecks(document, now)
    IN IF c.early
       THEN [valid |-> FALSE, errors |-> c.errors, document |-> None]
       ELSE [valid |-> c.errors = <<>>,
             errors |-> c.errors,
             document |-> IF c.errors = <<>> THEN Some(document) ELSE None]

\* a public key with one byte changed: the key of a pair nobody generated
flipByte(publicKey) == <<publicKey[1], publicKey[2] + 128>>

\* the changes made to a created document before it is verified: the entry of
\* publicKeys whose publicKey has a byte flipped (0: none), a proof naming a
\* key the document does not list, another version, a creation time beyond
\* the tolerance, the encryption key revoked at time 1, the signing key
\* expiring at time 1
Changes ==
    [flip : 0..2, method : BOOLEAN, version : {1, 2}, future : BOOLEAN,
     revoked : BOOLEAN, expires : BOOLEAN]

changed(document, c, now) ==
    [document EXCEPT
        !.version = c.version,
        !.created = IF c.future THEN now + FutureTolerance + 1 ELSE @,
        !.proof.verificationMethod = IF c.method THEN <<document.did, "key-9">> ELSE @,
        !.publicKeys =
            [i \in DOMAIN @ |->
                [@[i] EXCEPT
                    !.publicKey = IF c.flip = i THEN flipByte(@) ELSE @,
                    !.revoked = IF c.revoked /\ i = 2 THEN Some(1) ELSE @,
                    !.expires = IF c.expires /\ i = 1 THEN Some(1) ELSE @]]]

INoOp == [op |-> "none", doc |-> 0, c |-> <<>>, input |-> <<>>, now |-> 0,
          res |-> <<>>]

InitIdentity ==
    /\ docs = <<>> /\ backups = <<>>
    /\ nextKey = 7
    /\ last = INoOp
    /\ st = <<>> /\ net = <<>> /\ log = <<>> /\ faults = 0 /\ dirt = "clean"
    /\ prekeys = <<>> /\ bundle = <<>> /\ convs = <<>> /\ shakes = <<>> /\ dms = <<>>
    /\ objects = <<>> /\ boxes = <<>>

\* createIdentity({type}) at time now
CreateIdentity(type, now) ==
    /\ Len(docs) < MaxDocs
    /\ docs' = Append(docs, createIdentity(nextKey, type, now))
    /\ nextKey' = nextKey + 2
    /\ last' = [INoOp EXCEPT !.op = "createIdentity", !.doc = Len(docs) + 1,
                             !.now = now]
    /\ UNCHANGED <<backups>>
    /\ UNCHANGED <<ratchetVars, sessionVars, contentVars, sealVars>>

\* verifyIdentityDocument, at time now, of the document of identity d with
\* the changes c
VerifyIdentityDocument(d, c, now) ==
    /\ now >= docs[d].created
    /\ LET input == changed(docs[d].document, c, now)
       IN last' = [op |-> "verifyIdentityDocument", doc |-> d, c |-> c,
                   input |-> input, now |-> now,
                   res |-> verifyIdentityDocument(input, now)]
    /\ UNCHANGED <<docs, backups, nextKey>>
    /\ UNCHANGED <<ratchetVars, sessionVars, contentVars, sealVars>>

NextIdentity ==
    \/ \E type \in {"ephemeral", "persistent", "recoverable"}, now \in 0..MaxTime :
          CreateIdentity(type, now)
    \/ \E d \in 1..Len(docs), c \in Changes, now \in 0..MaxTime :
          VerifyIdentityDocument(d, c, now)

SpecIdentity == InitIdentity /\ [][NextIdentity]_vars

(***************************************************************************)
(* Properties of the identity specification.                               *)
(***************************************************************************)
NoChange ==
    [flip |-> 0, method |-> FALSE, version |-> 2, future |-> FALSE,
     revoked |-> FALSE, expires |-> FALSE]

\* C11 (as claimed): when the only change to a created document is a flipped
\* byte in the publicKey of one of its publicKeys entries, signing key or
\* encryption key, verifyIdentityDocument reports INVALID_SIGNATURE or
\* DID_MISMATCH.
C11_FlippedKeyDetected ==
    (/\ last.op = "verifyIdentityDocument"
     /\ last.c.flip # 0
     /\ last.c = [NoChange EXCEPT !.flip = last.c.flip])
        => \/ Has(last.res.errors, <<"INVALID_SIGNATURE">>)
           \/ Has(last.res.errors, <<"DID_MISMATCH">>)

\* C13 (as claimed): a document whose proof names no matching signing key
\* still gets every other failure that applies to it: wrong version, creation
\* time beyond the tolerance, revoked key, expired key.
C13_AllFailuresReported ==
    (/\ last.op = "verifyIdentityDocument"
     /\ Has(last.res.errors, <<"SIGNING_KEY_NOT_FOUND">>))
        => /\ last.input.version # 2 => Has(last.res.errors, <<"INVALID_VERSION">>)
           /\ last.input.created > last.now + FutureTolerance
                => Has(last.res.errors, <<"FUTURE_TIMESTAMP">>)
           /\ \A i \in DOMAIN last.input.publicKeys :
                LET key == last.input.publicKeys[i]
                IN /\ (key.revoked # None /\ Get(key.revoked) < last.now)
                        => Has(last.res.errors, <<"KEY_REVOKED", key.id>>)
                   /\ (key.expires # None /\ Get(key.expires) < last.now)
                        => Has(last.res.errors, <<"KEY_EXPIRED", key.id>>)

(***************************************************************************)
(* Backup specification: exportIdentity and importIdentity (identity.ts)   *)
(* over deriveKeyFromPassword (hash.ts), for the identities of A, B and C. *)
(* A password is a JavaScript string, here the sequence of its UTF-16      *)
(* code units; "D800" and "D801" are high surrogates, "DC00" is a low one. *)
(***************************************************************************)
MaxBackups == 1

Passwords ==
    {<<"p">>, <<"q">>, <<"p", "q">>, <<"D800">>, <<"D801">>,
     <<"D800", "DC00">>, <<"D801", "DC00">>}

\* new TextEncoder().encode(s): the UTF-8 bytes, one tuple per encoded
\* character.  A surrogate pair is one character; a surrogate that is not part
\* of a pair is replaced by U+FFFD.
RECURSIVE TextEncoderEncode(_)
TextEncoderEncode(s) ==
    LET IsHighSurrogate(u) == u \in {"D800", "D801"}
        IsLowSurrogate(u) == u \in {"DC00"}
    IN IF s = <<>> THEN <<>>
       ELSE IF IsHighSurrogate(s[1]) /\ Len(s) >= 2 /\ IsLowSurrogate(s[2])
       THEN << <<s[1], s[2]>> >> \o TextEncoderEncode(Tail(Tail(s)))
       ELSE IF IsHighSurrogate(s[1]) \/ IsLowSurrogate(s[1])
       THEN << <<"FFFD">> >> \o TextEncoderEncode(Tail(s))
       ELSE << <<s[1]>> >> \o TextEncoderEncode(Tail(s))

\* createArgon2Params with the random salt `fresh`
createArgon2Params(fresh) ==
    [memoryCost |-> 262144, timeCost |-> 3, parallelism |-> 4, hashLength |-> 32,
     salt |-> <<"salt", fresh>>]

\* a derivation that leaves the password out
deriveKeyFromPassword_noPassword(password, params) ==
    hkdf([sha256 |-> <<<<>>, params.salt>>, rounds |-> params.timeCost * 100,
          salt |-> params.salt, length |-> params.hashLength],
         "rootless-password-key-v2")

\* deriveKeyFromPassword: SHA-256 of password bytes || salt (a salt has 16
\* bytes, so the two parts are told apart), stretched timeCost * 100 rounds,
\* then HKDF with the salt to hashLength bytes
deriveKeyFromPassword(password, params) ==
    hkdf([sha256 |-> <<TextEncoderEncode(password), params.salt>>,
          rounds |-> params.timeCost * 100,
          salt |-> params.salt, length |-> params.hashLength],
         "rootless-password-key-v2")

\* Array.from(bytes), a JSON array of numbers, and new Uint8Array(array)
ArrayFrom(bytes) == <<"array", bytes>>
Uint8ArrayOf(array) == array[2]

exportIdentity(identity, password, fresh) ==
    LET data ==
            [did |-> identity.did,
             type |-> identity.type,
             document |->
                [identity.document EXCEPT
                    !.publicKeys =
                        [i \in DOMAIN @ |->
                            [@[i] EXCEPT !.publicKey = ArrayFrom(@)]],
                    !.proof.signature = ArrayFrom(@)],
             keySet |->
                [signing |->
                    [publicKey |-> ArrayFrom(identity.keySet.signing.publicKey),
                     privateKey |-> ArrayFrom(identity.keySet.signing.privateKey)],
                 encryption |->
                    [publicKey |-> ArrayFrom(identity.keySet.encryption.publicKey),
                     privateKey |-> ArrayFrom(identity.keySet.encryption.privateKey)]],
             created |-> identity.created]
        plaintext == <<"json", data>>
        kdfParams == createArgon2Params(fresh)
        encryptionKey == deriveKeyFromPassword(password, kdfParams)
        nonce == fresh + 1
    IN [version |-> 2,
        encrypted |-> TRUE,
        data |-> [nonce |-> nonce, rest |-> encrypt(encryptionKey, plaintext, nonce)],
        kdf |-> Some([algorithm |-> "argon2id", salt |-> kdfParams.salt,
                      memoryCost |-> kdfParams.memoryCost,
                      timeCost |-> kdfParams.timeCost,
                      parallelism |-> kdfParams.parallelism])]

\* importIdentity at time now: [kind |-> "ok", pt |-> identity] or the error
importIdentity(exported, password, now) ==
    IF ~exported.encrypted \/ exported.kdf = None
    THEN Err("Unencrypted exports not supported")
    ELSE
     LET kdf == Get(exported.kdf)
         decryptionKey ==
            deriveKeyFromPassword(password,
                [memoryCost |-> kdf.memoryCost, timeCost |-> kdf.timeCost,
                 parallelism |-> kdf.parallelism, hashLength |-> 32,
                 salt |-> kdf.salt])
         plaintext == decrypt(decryptionKey, exported.data.rest, exported.data.nonce)
     IN IF plaintext.kind # "ok" THEN Err("Invalid password or corrupted data")
        ELSE
         LET data == plaintext.pt[2]
             identity ==
                [did |-> data.did,
                 type |-> data.type,
                 document |->
                    [data.document EXCEPT
                        !.publicKeys =
                            [i \in DOMAIN @ |->
                                [@[i] EXCEPT !.publicKey = Uint8ArrayOf(@)]],
                        !.proof.signature = Uint8ArrayOf(@)],
                 keySet |->
                    [signing |->
                        [publicKey |-> Uint8ArrayOf(data.keySet.signing.publicKey),
                         privateKey |-> Uint8ArrayOf(data.keySet.signing.privateKey)],
                     encryption |->
                        [publicKey |-> Uint8ArrayOf(data.keySet.encryption.publicKey),
                         privateKey |->
                            Uint8ArrayOf(data.keySet.encryption.privateKey)]],
                 created |-> data.created]
             verification == verifyIdentityDocument(identity.document, now)
         IN IF ~verification.valid THEN Err("Invalid identity")
            ELSE Ok(identity)

BNoOp == [op |-> "none", backup |-> 0, password |-> <<>>, now |-> 0,
          res |-> Err("none")]

InitBackup ==
    /\ docs = <<>> /\ backups = <<>>
    /\ nextKey = 7
    /\ last = BNoOp
    /\ st = <<>> /\ net = <<>> /\ log = <<>> /\ faults = 0 /\ dirt = "clean"
    /\ prekeys = <<>> /\ bundle = <<>> /\ convs = <<>> /\ shakes = <<>> /\ dms = <<>>
    /\ objects = <<>> /\ boxes = <<>>

\* exportIdentity(identity of m, password)
ExportIdentity(m, password) ==
    /\ Len(backups) < MaxBackups
    /\ backups' = Append(backups,
                         [exported |-> exportIdentity(Identity(m), password, nextKey),
                          of |-> m, password |-> password])
    /\ nextKey' = nextKey + 2
    /\ last' = [BNoOp EXCEPT !.op = "exportIdentity", !.backup = Len(backups) + 1,
                             !.password = password]
    /\ UNCHANGED <<docs>>
    /\ UNCHANGED <<ratchetVars, sessionVars, contentVars, sealVars>>

\* importIdentity(backups[b], password) at time now
ImportIdentity(b, password, now) ==
    /\ last' = [op |-> "importIdentity", backup |-> b, password |-> password,
                now |-> now,
                res |-> importIdentity(backups[b].exported, password, now)]
    /\ UNCHANGED <<docs, backups, nextKey>>
    /\ UNCHANGED <<ratchetVars, sessionVars, contentVars, sealVars>>

NextBackup ==
    \/ \E m \in Manager, password \in Passwords : ExportIdentity(m, password)
    \/ \E b \in 1..Len(backups), password \in Passwords, now \in 0..MaxTime :
          ImportIdentity(b, password, now)

SpecBackup == InitBackup /\ [][NextBackup]_vars

(***************************************************************************)
(* Properties of the backup specification.                                 *)
(***************************************************************************)
\* C17 (as claimed): importing a backup with the password it was exported
\* under returns an identity with the DID of the exported one, and importing
\* it with any different password string fails with the authentication error.
C17_AnyOtherPasswordFails ==
    last.op = "importIdentity" =>
        LET b == backups[last.backup]
        IN /\ last.password = b.password
                => last.res.kind = "ok" /\ last.res.pt.did = Identity(b.of).did
           /\ last.password # b.password
                => last.res.kind = "Invalid password or corrupted data"

\* C17 (amended): importing a backup with the password it was exported under
\* returns an identity with the DID of the exported one, and importing it with
\* a password whose UTF-8 encoding differs from that of the export password
\* fails with the authentication error and returns no identity.
C17_OtherEncodingFails ==
    last.op = "importIdentity" =>
        LET b == backups[last.backup]
        IN /\ last.password = b.password
                => last.res.kind = "ok" /\ last.res.pt.did = Identity(b.of).did
           /\ TextEncoderEncode(last.password) # TextEncoderEncode(b.password)
                => /\ last.res.kind = "Invalid password or corrupted data"
                   /\ last.res.pt = <<>>

\* a backup exported under "p" was imported with "q" and refused
C17_Witness ==
    /\ last.op = "importIdentity"
    /\ backups[last.backup].password = <<"p">>
    /\ last.password = <<"q">>
    /\ last.res.kind = "Invalid password or corrupted data"

\* a backup was imported with its own password and gave back the identity
C17_WitnessRoundTrip ==
    /\ last.op = "importIdentity"
    /\ backups[last.backup].password = last.password
    /\ last.res = Ok(Identity(backups[last.backup].of))

(***************************************************************************)
(* Sealing specification: SessionManager.sendSealedMessage and             *)
(* receiveSealedMessage (session.ts) over sealTo/unseal, and               *)
(* encryptToMultiple/decryptMultiRecipient (keyexchange.ts), for the       *)
(* encryption key pairs of A, B and C.                                     *)
(***************************************************************************)
MaxBoxes == 1

\* a sendSealedMessage that names its sender
sendSealedMessage_withSender(identity, recipientEncryptionKey, plaintext, fresh, nonce) ==
    LET sealed == sealTo(recipientEncryptionKey, plaintext, fresh, nonce)
    IN [version |-> 2, type |-> "sealed", sender |-> identity.did,
        ephemeralPublic |-> sealed.ephemeralPublic,
        ciphertext |-> sealed.ciphertext, nonce |-> sealed.nonce]

\* sendSealedMessage of the manager with this identity; `fresh` and `nonce`
\* are the random choices of sealTo
sendSealedMessage(identity, recipientEncryptionKey, plaintext, fresh, nonce) ==
    LET sealed == sealTo(recipientEncryptionKey, plaintext, fresh, nonce)
    IN [version |-> 2, type |-> "sealed",
        ephemeralPublic |-> sealed.ephemeralPublic,
        ciphertext |-> sealed.ciphertext, nonce |-> sealed.nonce]

receiveSealedMessage(identity, message) ==
    unseal(identity.keySet.encryption.privateKey,
           [ephemeralPublic |-> message.ephemeralPublic,
            ciphertext |-> message.ciphertext,
            nonce |-> message.nonce])

XNoOp == [op |-> "none", who |-> "A", box |-> 0, res |-> Err("none")]

InitSeal ==
    /\ boxes = <<>>
    /\ nextKey = 7
    /\ last = XNoOp
    /\ st = <<>> /\ net = <<>> /\ log = <<>> /\ faults = 0 /\ dirt = "clean"
    /\ prekeys = <<>> /\ bundle = <<>> /\ convs = <<>> /\ shakes = <<>> /\ dms = <<>>
    /\ objects = <<>> /\ docs = <<>> /\ backups = <<>>

\* manager m: sendSealedMessage(encryption key of r, plaintext)
SendSealedMessage(m, r, plaintext) ==
    /\ Len(boxes) < MaxBoxes
    /\ LET n == Len(boxes) + 1
           recipientEncryptionKey == Identity(r).keySet.encryption.publicKey
       IN boxes' = Append(boxes,
                     [kind |-> "sealed",
                      message |-> sendSealedMessage(Identity(m), recipientEncryptionKey,
                                                    plaintext, nextKey, Nonce(n, 1)),
                      by |-> m, to |-> <<r>>, pt |-> plaintext,
                      fresh |-> nextKey, nonce |-> Nonce(n, 1)])
    /\ nextKey' = nextKey + 1
    /\ last' = [XNoOp EXCEPT !.op = "sendSealedMessage", !.who = m,
                             !.box = Len(boxes) + 1]
    /\ UNCHANGED <<ratchetVars, sessionVars, contentVars, identityVars>>

\* manager m: receiveSealedMessage(boxes[b].message)
ReceiveSealedMessage(b, m) ==
    /\ boxes[b].kind = "sealed"
    /\ last' = [XNoOp EXCEPT !.op = "receiveSealedMessage", !.who = m, !.box = b,
                             !.res = receiveSealedMessage(Identity(m), boxes[b].message)]
    /\ UNCHANGED <<boxes, nextKey>>
    /\ UNCHANGED <<ratchetVars, sessionVars, contentVars, identityVars>>

\* encryptToMultiple(encryption keys of the managers in `to`, plaintext)
EncryptToMultiple(to, plaintext) ==
    /\ Len(boxes) < MaxBoxes
    /\ IF Len(to) = 0
       THEN /\ last' = [XNoOp EXCEPT !.op = "encryptToMultiple",
                                     !.res = Err("At least one recipient required")]
            /\ UNCHANGED <<boxes, nextKey>>
       ELSE LET n == Len(boxes) + 1
                recipientPublicKeys ==
                    [i \in 1..Len(to) |-> Identity(to[i]).keySet.encryption.publicKey]
            IN /\ boxes' = Append(boxes,
                             [kind |-> "multi",
                              message |-> encryptToMultiple(recipientPublicKeys,
                                                            plaintext, nextKey, n),
                              by |-> "A", to |-> to, pt |-> plaintext,
                              fresh |-> nextKey, nonce |-> Nonce(n, 1)])
               /\ nextKey' = nextKey + 2
               /\ last' = [XNoOp EXCEPT !.op = "encryptToMultiple", !.box = n,
                                        !.res = Ok(plaintext)]
    /\ UNCHANGED <<ratchetVars, sessionVars, contentVars, identityVars>>

\* the holder m of an encryption key pair:
\* decryptMultiRecipient(privateKey, publicKey, boxes[b].message)
DecryptMultiRecipient(b, m) ==
    /\ boxes[b].kind = "multi"
    /\ last' = [XNoOp EXCEPT
                    !.op = "decryptMultiRecipient", !.who = m, !.box = b,
                    !.res = decryptMultiRecipient(
                                Identity(m).keySet.encryption.privateKey,
                                Identity(m).keySet.encryption.publicKey,
                                boxes[b].message)]
    /\ UNCHANGED <<boxes, nextKey>>
    /\ UNCHANGED <<ratchetVars, sessionVars, contentVars, identityVars>>

NextSeal ==
    \/ \E m \in Manager, r \in Manager, k \in 1..2 :
          SendSealedMessage(m, r, Payload(m, k))
    \/ \E b \in 1..Len(boxes), m \in Manager : ReceiveSealedMessage(b, m)
    \/ \E to \in RecipientLists, k \in 1..2 : EncryptToMultiple(to, Payload("A", k))
    \/ \E b \in 1..Len(boxes), m \in Manager : DecryptMultiRecipient(b, m)

SpecSeal == InitSeal /\ [][NextSeal]_vars

(***************************************************************************)
(* Properties of the sealing specification.                                *)
(***************************************************************************)
InList(m, to) == \E i \in 1..Len(to) : to[i] = m

\* C16: of a payload that encryptToMultiple made for a non-empty list of
\* public keys, the holder of a listed key pair gets the plaintext back from
\* decryptMultiRecipient, and the holder of a key pair that is not listed
\* gets the not-a-recipient error.
C16_ListedDecryptOthersRefused ==
    last.op = "decryptMultiRecipient" =>
        IF InList(last.who, boxes[last.box].to)
        THEN last.res = Ok(boxes[last.box].pt)
        ELSE last.res = Err("NotRecipient")

\* the second of two listed holders decrypted the payload
C16_Witness ==
    /\ last.op = "decryptMultiRecipient"
    /\ Len(boxes[last.box].to) = 2
    /\ boxes[last.box].to[1] # boxes[last.box].to[2]
    /\ last.who = boxes[last.box].to[2]
    /\ last.res = Ok(boxes[last.box].pt)

\* a holder that is not listed was refused
C16_WitnessRefused ==
    /\ last.op = "decryptMultiRecipient"
    /\ ~InList(last.who, boxes[last.box].to)
    /\ last.res = Err("NotRecipient")

\* C18: a sealed message has the fields version, type, ephemeralPublic,
\* ciphertext and nonce and nothing else, and it is the message every other
\* manager's sendSealedMessage makes from the same recipient key, plaintext
\* and random choices.
C18_SealedIndependentOfSender ==
    \A b \in 1..Len(boxes) :
        boxes[b].kind = "sealed" =>
            /\ DOMAIN boxes[b].message =
                    {"version", "type", "ephemeralPublic", "ciphertext", "nonce"}
            /\ \A m \in Manager :
                    sendSealedMessage(Identity(m),
                        Identity(boxes[b].to[1]).keySet.encryption.publicKey,
                        boxes[b].pt, boxes[b].fresh, boxes[b].nonce)
                    = boxes[b].message

\* C sealed a message to B
C18_Witness ==
    \E b \in 1..Len(boxes) :
        /\ boxes[b].kind = "sealed"
        /\ boxes[b].by = "C"
        /\ boxes[b].to = <<"B">>
        /\ last.op = "sendSealedMessage"

\* C19: receiveSealedMessage with the private key of the recipient the
\* message was sealed to returns the sealed plaintext, and with any other
\* private key it fails with the authentication error.
C19_OnlyRecipientUnseals ==
    last.op = "receiveSealedMessage" =>
        IF last.who = boxes[last.box].to[1]
        THEN last.res = Ok(boxes[last.box].pt)
        ELSE last.res = Err("AuthError")

\* the recipient of a message somebody else sealed opened it
C19_Witness ==
    /\ last.op = "receiveSealedMessage"
    /\ last.who = boxes[last.box].to[1]
    /\ boxes[last.box].by # last.who
    /\ last.res = Ok(boxes[last.box].pt)

\* somebody else, the sender, was refused
C19_WitnessRefused ==
    /\ last.op = "receiveSealedMessage"
    /\ last.who = boxes[last.box].by
    /\ last.who # boxes[last.box].to[1]
    /\ last.res = Err("AuthError")

(***************************************************************************)
(* Properties of the expiry specification.                                 *)
(***************************************************************************)
\* the last call was receiveMessage, at a time after the message's expiresAt
ReceivedExpired ==
    /\ last.op = "receive"
    /\ dms[last.dm].expiresAt # None
    /\ Get(dms[last.dm].expiresAt) < last.now

\* C20 (as claimed): receiveMessage rejects every message whose expiresAt is
\* earlier than the current time with the expired error, and the rejected
\* call leaves the conversations' ratchet state and lastMessage unchanged.
C20_ExpiredRejected ==
    [][ReceivedExpired' => (last'.res = Err("Message expired") /\ convs' = convs)]_vars

(***************************************************************************)
(* Counters across DH ratchet steps (ratchet specification).               *)
(***************************************************************************)
\* the messages p has encrypted under the DH key pair its state holds now
SentOnChain(p) ==
    {j \in 1..Len(net) : /\ net[j].to = Peer(p)
                         /\ net[j].message.header.dhPublic = st[p].dhSend.publicKey}

\* C21: a DH ratchet step sets sendN to 0 and previousSendN to the number of
\* messages sent on the sending chain it closes, and restarts receiveN at 0
\* (the decryption that stepped leaves it at header.n + 1, or at 0 when the
\* skip on the new chain is refused); the first message sent on a chain
\* carries n = 0 and pn = previousSendN.
C21_CountersAcrossStep ==
    [][\A p \in Party :
         /\ st[p].sendN = Cardinality(SentOnChain(p))
         /\ st'[p].dhSend # st[p].dhSend =>
               /\ st'[p].sendN = 0
               /\ st'[p].previousSendN = Cardinality(SentOnChain(p))
               /\ st'[p].receiveN = IF last'.res.kind = "TooManySkipped" THEN 0
                                    ELSE net[last'.msg].message.header.n + 1
         /\ (Len(net') > Len(net) /\ last'.who = p /\ SentOnChain(p) = {}) =>
               /\ net'[Len(net')].message.header.n = 0
               /\ net'[Len(net')].message.header.pn = st[p].previousSendN]_vars

\* A sends two messages, takes a DH ratchet step on B's reply, and its next
\* message carries n = 0 and pn = 2
C21_Witness ==
    /\ last.op = "encrypt" /\ last.who = "A" /\ last.res.kind = "ok"
    /\ st["A"].dhSend.privateKey > 2
    /\ net[last.msg].message.header.n = 0
    /\ net[last.msg].message.header.pn = 2
    /\ st["A"].receiveN = 1

(***************************************************************************)
(* Prekey specification: the handshake calls with arguments of any origin. *)
(* The initiators are handed B's bundle as published, with the signature   *)
(* replaced, or with the signed prekey replaced, and check it under B's    *)
(* signing key or another one; B is told any prekey ids.                   *)
(***************************************************************************)
\* handshakes started in one run of the prekey specification
MaxOffers == 1

NextPrekeys ==
    LET \* a signing key pair and an X25519 key that are not B's
        OtherSigning == Identity("C").keySet.signing
        OtherPrekey == Identity("C").keySet.encryption.publicKey
        \* the bundles an initiator may be handed in place of the published bundle b
        Offered(b) ==
            {b,
             [b EXCEPT !.signedPrekey.signature =
                           sign(OtherSigning.privateKey, b.signedPrekey.publicKey)],
             [b EXCEPT !.signedPrekey.publicKey = OtherPrekey],
             [b EXCEPT !.signedPrekey.publicKey = OtherPrekey,
                       !.signedPrekey.signature =
                           sign(OtherSigning.privateKey, OtherPrekey)]}
        \* the prekey ids B may be told: its own and one it never generated
        SignedPrekeyIds == {prekeys.signedPrekey.id, 0}
        OneTimePrekeyIds ==
            {None, Some(0)}
                \cup {Some(prekeys.oneTimePrekeys[k].id) :
                         k \in 1..Len(prekeys.oneTimePrekeys)}
    IN \/ FetchBundle("A")
       \/ /\ bundle["A"] # None
          /\ Len(shakes) < MaxOffers
          /\ \E b \in Offered(Get(bundle["A"])),
                k \in {Identity("B").keySet.signing.publicKey, OtherSigning.publicKey} :
                InitiateConversation("A", b, k)
       \/ \E h \in 1..Len(shakes), sid \in SignedPrekeyIds, otp \in OneTimePrekeyIds :
             /\ Len(convs["B"]) <= MaxOffers
             /\ AcceptConversation(h, sid, otp)

SpecPrekeys == InitSession /\ [][NextPrekeys]_vars

\* C22: an initiateConversation whose bundle carries a signed-prekey signature
\* that was not made with the private half of the given signing key over the
\* bundle's signed-prekey public key fails in x3dhInitiate, yields no shared
\* secret and adds no conversation.
C22_BadSignatureRefused ==
    [][(/\ last'.op = "initiate"
        /\ \/ last'.input[1].signedPrekey.signature.by # last'.input[2]
           \/ last'.input[1].signedPrekey.signature.over
                 # last'.input[1].signedPrekey.publicKey)
       => /\ last'.res = Err("InvalidSignature")
          /\ last'.secret = None
          /\ convs' = convs /\ shakes' = shakes]_vars

\* A is handed B's bundle with the signature replaced by one of another key
\* over the same signed prekey, checks it under B's signing key and is refused
C22_Witness ==
    /\ last.op = "initiate" /\ last.who = "A"
    /\ last.input[2] = Identity("B").keySet.signing.publicKey
    /\ last.input[1].signedPrekey.publicKey = prekeys.signedPrekey.publicKey
    /\ last.input[1].signedPrekey.signature.by = Identity("C").keySet.signing.publicKey
    /\ last.res = Err("InvalidSignature")
    /\ convs["A"] = <<>>

\* C23: an acceptConversation that declares a signed-prekey id other than the
\* prekey set's fails in x3dhRespond with UNKNOWN_SIGNED_PREKEY, leaves the
\* prekey set (the used flags of its one-time prekeys included) as it was and
\* adds no conversation.
C23_UnknownSignedPrekeyRefused ==
    [][(last'.op = "accept" /\ last'.input[1] # prekeys.signedPrekey.id)
       => /\ last'.res = Err("UnknownSignedPrekey")
          /\ prekeys' = prekeys
          /\ convs' = convs]_vars

\* B is told a wrong signed-prekey id together with a one-time prekey id that
\* is its own and unused, and refuses
C23_Witness ==
    /\ last.op = "accept"
    /\ last.input[1] # prekeys.signedPrekey.id
    /\ last.input[2] # None
    /\ \E k \in 1..Len(prekeys.oneTimePrekeys) :
          /\ prekeys.oneTimePrekeys[k].id = Get(last.input[2])
          /\ ~prekeys.oneTimePrekeys[k].used
    /\ last.res = Err("UnknownSignedPrekey")

\* the one-time prekeys of the set that are not marked used, in their order
RECURSIVE UnusedIds(_)
UnusedIds(otps) ==
    IF otps = <<>> THEN <<>>
    ELSE (IF Head(otps).used THEN <<>> ELSE <<Head(otps).id>>) \o UnusedIds(Tail(otps))

\* C24: in every state of the prekey set, getPublicBundle has no privateKey
\* property anywhere, its keys are the public halves of the set's keys, its
\* one-time prekeys are exactly the unused ones (so none that x3dhRespond
\* consumed), and there are countAvailablePrekeys of them.
C24_BundleIsPublicUnused ==
    LET b == getPublicBundle(prekeys)
        otps == b.oneTimePrekeys
    IN /\ DOMAIN b = {"identityKey", "signedPrekey", "oneTimePrekeys"}
       /\ "privateKey" \notin DOMAIN b.signedPrekey
       /\ b.identityKey = prekeys.identityKey.publicKey
       /\ b.signedPrekey.publicKey = prekeys.signedPrekey.publicKey
       /\ \A k \in 1..Len(otps) : DOMAIN otps[k] = {"id", "publicKey"}
       /\ [k \in 1..Len(otps) |-> otps[k].id] = UnusedIds(prekeys.oneTimePrekeys)
       /\ \A k \in 1..Len(otps) :
             \E j \in 1..Len(prekeys.oneTimePrekeys) :
                /\ prekeys.oneTimePrekeys[j].id = otps[k].id
                /\ prekeys.oneTimePrekeys[j].publicKey = otps[k].publicKey
       /\ Len(otps) = countAvailablePrekeys(prekeys)
       /\ \A i \in Initiator :
             (last.op = "bundle" /\ last.who = i) => bundle[i] = Some(b)

\* an initiator fetches the bundle after B consumed a one-time prekey
C24_Witness ==
    /\ last.op = "bundle"
    /\ \E k \in 1..Len(prekeys.oneTimePrekeys) : prekeys.oneTimePrekeys[k].used
    /\ Len(Get(bundle[last.who]).oneTimePrekeys) < Len(prekeys.oneTimePrekeys)

\* C25: ratchetEncrypt on a state without a send chain key fails with
\* RATCHET_NOT_READY and changes nothing; a party that has successfully
\* decrypted a message has a send chain key and its ratchetEncrypt succeeds.
C25_NotReadyUntilFirstDecrypt ==
    [][\A p \in Party :
         (last'.op = "encrypt" /\ last'.who = p) =>
            /\ st[p].sendChainKey = None =>
                  /\ last'.res = Err("RatchetNotReady")
                  /\ st' = st /\ net' = net
            /\ (\E j \in 1..Len(net) : net[j].to = p /\ log[j].ok > 0) =>
                  /\ st[p].sendChainKey # None
                  /\ last'.res.kind = "ok"
                  /\ Len(net') = Len(net) + 1]_vars

\* B, initialised as receiver, is asked to encrypt before it has decrypted
\* anything and refuses
C25_Witness ==
    /\ last.op = "encrypt" /\ last.who = "B"
    /\ last.res = Err("RatchetNotReady")
    /\ st["B"] = initReceiverRatchet(RatchetSecret, SignedPrekeyPair)
    /\ \E j \in 1..Len(net) : net[j].to = "B"

\* B encrypts after its first successful decryption
C25_WitnessReady ==
    /\ last.op = "encrypt" /\ last.who = "B" /\ last.res.kind = "ok"
    /\ Cardinality({j \in 1..Len(net) : net[j].to = "B" /\ log[j].ok > 0}) = 1
    /\ net[last.msg].message.header.n = 0

(***************************************************************************)
(* Storage of the session state: serializeRatchetState and                 *)
(* deserializeRatchetState (ratchet.ts), exportState and importState       *)
(* (session.ts).                                                           *)
(***************************************************************************)
\* the JSON value null
JsonNull == <<"null">>

serializeRatchetState(state) ==
    <<"utf8", <<"json",
       [dhSend |-> [publicKey |-> ArrayFrom(state.dhSend.publicKey),
                    privateKey |-> ArrayFrom(state.dhSend.privateKey)],
        dhReceive |-> IF state.dhReceive # None
                      THEN ArrayFrom(Get(state.dhReceive)) ELSE JsonNull,
        rootKey |-> ArrayFrom(state.rootKey),
        sendChainKey |-> IF state.sendChainKey # None
                         THEN ArrayFrom(Get(state.sendChainKey)) ELSE JsonNull,
        receiveChainKey |-> IF state.receiveChainKey # None
                            THEN ArrayFrom(Get(state.receiveChainKey)) ELSE JsonNull,
        sendN |-> state.sendN,
        receiveN |-> state.receiveN,
        previousSendN |-> state.previousSendN,
        skippedKeys |-> [i \in 1..Len(state.skippedKeys) |->
                            <<state.skippedKeys[i].id,
                              ArrayFrom(state.skippedKeys[i].key)>>],
        maxSkip |-> state.maxSkip]>>>>

\* new Map(entries)
RECURSIVE MapOf(_)
MapOf(entries) ==
    IF entries = <<>> THEN <<>>
    ELSE LET e == entries[Len(entries)]
         IN MapSet(MapOf(SubSeq(entries, 1, Len(entries) - 1)), e[1], Uint8ArrayOf(e[2]))

deserializeRatchetState(data) ==
    LET obj == data[2][2]
    IN [dhSend |-> [publicKey |-> Uint8ArrayOf(obj.dhSend.publicKey),
                    privateKey |-> Uint8ArrayOf(obj.dhSend.privateKey)],
        dhReceive |-> IF obj.dhReceive # JsonNull
                      THEN Some(Uint8ArrayOf(obj.dhReceive)) ELSE None,
        rootKey |-> Uint8ArrayOf(obj.rootKey),
        sendChainKey |-> IF obj.sendChainKey # JsonNull
                         THEN Some(Uint8ArrayOf(obj.sendChainKey)) ELSE None,
        receiveChainKey |-> IF obj.receiveChainKey # JsonNull
                            THEN Some(Uint8ArrayOf(obj.receiveChainKey)) ELSE None,
        sendN |-> obj.sendN,
        receiveN |-> obj.receiveN,
        previousSendN |-> obj.previousSendN,
        skippedKeys |-> MapOf(obj.skippedKeys),
        maxSkip |-> obj.maxSkip]

\* exportState: JSON.stringify leaves out a lastMessage that is undefined
\* (hs is the model's note of the handshake a conversation came from)
exportState(cs) ==
    <<"utf8", <<"json",
       [conversations |->
          [i \in 1..Len(cs) |->
             LET conv == [id |-> cs[i].id,
                          participants |-> cs[i].participants,
                          ratchetState |->
                              ArrayFrom(serializeRatchetState(cs[i].ratchetState)),
                          hs |-> cs[i].hs]
             IN IF cs[i].lastMessage = None THEN conv
                ELSE [k \in DOMAIN conv \cup {"lastMessage"} |->
                         IF k = "lastMessage" THEN Get(cs[i].lastMessage)
                         ELSE conv[k]]]]>>>>

\* importState on a manager without conversations: every restored ratchet
\* state holds buffers of its own
importState(data) ==
    LET state == data[2][2]
    IN [i \in 1..Len(state.conversations) |->
          LET conv == state.conversations[i]
          IN [id |-> conv.id,
              participants |-> conv.participants,
              ratchetState |-> deserializeRatchetState(Uint8ArrayOf(conv.ratchetState)),
              lastMessage |-> IF "lastMessage" \in DOMAIN conv
                              THEN Some(conv.lastMessage) ELSE None,
              alias |-> FALSE,
              hs |-> conv.hs]]

(***************************************************************************)
(* Restore specification: A and C each start a conversation with B; at     *)
(* some point a second SessionManager of B's identity, R, restores B's     *)
(* exported state; from then on every message handed to B is handed to R   *)
(* as well.  st holds R's conversations, log the messages handed to both.  *)
(***************************************************************************)
\* DirectMessages sent in one run of the restore specification
MaxParcels == 2

RNoOp == [SNoOp EXCEPT !.input = Err("none")]

\* R.importState(B.exportState())
ImportState ==
    /\ st = <<>> /\ convs["B"] # <<>>
    /\ st' = importState(exportState(convs["B"]))
    /\ last' = [RNoOp EXCEPT !.op = "import", !.who = "B"]
    /\ UNCHANGED <<net, log, faults, dirt, nextKey>>
    /\ UNCHANGED <<sessionVars, contentVars, identityVars, sealVars>>

\* B.receiveMessage(message) and R.receiveMessage(message), where message is
\* dms[d] filed under the id B gave the conversation of its handshake, one of
\* the conversations R restored; both managers draw the same key pair if they take a DH ratchet step
ReceiveBoth(d) ==
    /\ st # <<>>
    /\ \A k \in 1..Len(log) : log[k] # d
    /\ \E c \in 1..Len(convs["B"]) :
          /\ convs["B"][c].hs = dms[d].hs
          /\ ConvHas(st, convs["B"][c].id)
          /\ LET message == [dms[d] EXCEPT !.conversationId = convs["B"][c].id]
                 original == receiveMessage(convs["B"], message, 0, nextKey)
                 restored == receiveMessage(st, message, 0, nextKey)
             IN /\ convs' = [convs EXCEPT !["B"] = original.conversations]
                /\ st' = restored.conversations
                /\ prekeys' = IF original.zeroized
                              THEN [prekeys EXCEPT !.signedPrekey.privateKey = 0]
                              ELSE prekeys
                /\ last' = [RNoOp EXCEPT !.op = "receive both", !.who = "B", !.dm = d,
                                         !.hs = dms[d].hs, !.res = original.res,
                                         !.input = restored.res]
    /\ log' = Append(log, d)
    /\ nextKey' = nextKey + 1
    /\ UNCHANGED <<net, faults, dirt, bundle, shakes, dms>>
    /\ UNCHANGED <<contentVars, identityVars, sealVars>>

NextRestore ==
    \/ \E i \in Initiator : FetchBundle(i)
    \/ \E i \in Initiator : convs[i] = <<>> /\ Initiate(i)
    \/ \E h \in 1..Len(shakes) : ~Accepted(h) /\ Accept(h)
    \/ \E i \in Initiator, id \in ConversationIds :
          /\ Len(dms) < MaxParcels
          /\ ConvHas(convs[i], id)
          /\ SendMessage(i, id, None, 0)
    \/ \E d \in 1..Len(dms), c \in 1..Len(convs["B"]) :
          /\ st = <<>>
          /\ convs["B"][c].hs = dms[d].hs
          /\ ReceiveMessage("B", d, convs["B"][c].id, 0)
    \/ ImportState
    \/ \E d \in 1..Len(dms) : ReceiveBoth(d)

SpecRestore == InitSession /\ [][NextRestore]_vars

\* the value of a conversation: everything but the note of which buffers it shares
ValueOf(conv) == [k \in DOMAIN conv \ {"alias"} |-> conv[k]]

\* C26 (as claimed): the restored conversations equal the original ones in
\* every field of their ratchet states, and from then on R's conversations
\* give the results and take the states B's conversations do.
C26_RestoredBehavesAsOriginal ==
    st # <<>> =>
        /\ \A c \in 1..Len(st) : ValueOf(st[c]) = ValueOf(convs["B"][c])
        /\ last.op = "receive both" => last.input = last.res

\* the round trip alone: deserializeRatchetState(serializeRatchetState(s))
\* equals s for the ratchet state of every conversation of every manager
C26_RoundTripEqual ==
    \A m \in Manager : \A c \in 1..Len(convs[m]) :
        /\ deserializeRatchetState(serializeRatchetState(convs[m][c].ratchetState))
              = convs[m][c].ratchetState
        /\ \A k \in 1..Len(importState(exportState(convs[m]))) :
              ValueOf(importState(exportState(convs[m]))[k]) = ValueOf(convs[m][k])

(***************************************************************************)
(* Content identifiers as text (identifiers.ts): computeCID, parseCID and  *)
(* isValidCID.  A byte string is its first up to four bytes and the number *)
(* of bytes that follow them; a multibase string is its prefix character   *)
(* and the bytes its remaining text decodes to, or text with a character   *)
(* outside the base32 alphabet.                                            *)
(***************************************************************************)
\* cid[0] = 0x01, MULTICODEC.RAW, MULTICODEC.BLAKE3 and the length of a BLAKE3 hash
CIDV1 == 1
RAW == 85
BLAKE3 == 30
HASH_LENGTH == 32
\* how many bytes more or fewer than a hash may follow the four leading bytes
MaxExtra == 1

\* base32.encode / base32.decode of the multiformats library: prefix 'b'
base32Encode(bytes) == [prefix |-> "b", clean |-> TRUE, bytes |-> bytes]
base32Decode(text) ==
    IF text.prefix = "b" /\ text.clean
    THEN [ok |-> TRUE, bytes |-> text.bytes]
    ELSE [ok |-> FALSE, bytes |-> [head |-> <<>>, tail |-> 0]]

\* the text computeCID makes of a 32-byte hash
cidText ==
    base32Encode([head |-> <<CIDV1, RAW, BLAKE3, HASH_LENGTH>>, tail |-> HASH_LENGTH])

\* bytes[i] of a Uint8Array: undefined beyond its end
ByteAt(bytes, i) == IF i < Len(bytes.head) THEN Some(bytes.head[i + 1]) ELSE None

\* parseCID: throws when base32.decode throws, otherwise returns the four
\* leading bytes and bytes.slice(4, 4 + hashLength)
parseCID(cidStr) ==
    LET d == base32Decode(cidStr)
        bytes == d.bytes
        hashLength == ByteAt(bytes, 3)
    IN [ok |-> d.ok,
        version |-> ByteAt(bytes, 0),
        codec |-> ByteAt(bytes, 1),
        hashFunction |-> ByteAt(bytes, 2),
        hash |-> IF hashLength = None THEN 0
                 ELSE IF bytes.tail < Get(hashLength) THEN bytes.tail
                 ELSE Get(hashLength)]

isValidCID(cid) == parseCID(cid).ok

\* the strings handed to the parser
CidBytes ==
    LET Expected == <<CIDV1, RAW, BLAKE3, HASH_LENGTH>>
        Tails == {0} \cup ((HASH_LENGTH - MaxExtra)..(HASH_LENGTH + MaxExtra))
        Heads(n) == {h \in [1..n -> {0, CIDV1, RAW, BLAKE3, HASH_LENGTH}] :
                        \A i \in 1..n : h[i] \in {0, Expected[i]}}
    IN {[head |-> h, tail |-> 0] : h \in UNION {Heads(n) : n \in 0..3}}
         \cup {[head |-> h, tail |-> t] : h \in Heads(4), t \in Tails}

CidStrings ==
    {[prefix |-> p, clean |-> c, bytes |-> b] :
        p \in {"b", "z"}, c \in BOOLEAN, b \in CidBytes}

DNoOp == [op |-> "none", cid |-> cidText, res |-> parseCID(cidText), valid |-> TRUE]

InitCid ==
    /\ last = DNoOp
    /\ nextKey = 0
    /\ st = <<>> /\ net = <<>> /\ log = <<>> /\ faults = 0 /\ dirt = "clean"
    /\ prekeys = <<>> /\ bundle = <<>> /\ convs = <<>> /\ shakes = <<>> /\ dms = <<>>
    /\ objects = <<>> /\ docs = <<>> /\ backups = <<>> /\ boxes = <<>>

ParseCID(cid) ==
    /\ last' = [DNoOp EXCEPT !.op = "parseCID", !.cid = cid, !.res = parseCID(cid),
                             !.valid = parseCID(cid).ok]
    /\ UNCHANGED <<nextKey, ratchetVars, sessionVars, contentVars, identityVars, sealVars>>

IsValidCID(cid) ==
    /\ last' = [DNoOp EXCEPT !.op = "isValidCID", !.cid = cid, !.res = parseCID(cid),
                             !.valid = isValidCID(cid)]
    /\ UNCHANGED <<nextKey, ratchetVars, sessionVars, contentVars, identityVars, sealVars>>

NextCid ==
    \/ \E cid \in CidStrings : ParseCID(cid)
    \/ \E cid \in CidStrings : IsValidCID(cid)

SpecCid == InitCid /\ [][NextCid]_vars

\* the decoded bytes are version 0x01, codec 0x55, hash code 0x1e, length 0x20
\* and then 32 bytes
ExactShape(text) ==
    /\ base32Decode(text).ok
    /\ base32Decode(text).bytes =
          [head |-> <<CIDV1, RAW, BLAKE3, HASH_LENGTH>>, tail |-> HASH_LENGTH]

\* C27 (as claimed): parseCID throws, and isValidCID returns false, for every
\* string whose decoded bytes do not have the exact shape of a CID.
C27_OnlyExactShapeParses ==
    (last.op \in {"parseCID", "isValidCID"} /\ ~ExactShape(last.cid)) => ~last.valid

(***************************************************************************)
(* Identities from seeds (identity.ts): createIdentity is called twice     *)
(* with seeds of the caller's choice, at times that do not go back, and    *)
(* the documents it returned are verified.  log holds the seed of each     *)
(* call.                                                                   *)
(***************************************************************************)
MaxSeeds == 2

InitSeed ==
    /\ docs = <<>> /\ log = <<>>
    /\ last = INoOp
    /\ nextKey = 0
    /\ backups = <<>>
    /\ st = <<>> /\ net = <<>> /\ faults = 0 /\ dirt = "clean"
    /\ prekeys = <<>> /\ bundle = <<>> /\ convs = <<>> /\ shakes = <<>> /\ dms = <<>>
    /\ objects = <<>> /\ boxes = <<>>

\* createIdentity({type, seed}) at time now
CreateIdentityFromSeed(seed, type, now) ==
    /\ Len(docs) < 2
    /\ \A d \in 1..Len(docs) : docs[d].created <= now
    /\ docs' = Append(docs, createIdentityFromSeed(seed, type, now))
    /\ log' = Append(log, seed)
    /\ last' = [INoOp EXCEPT !.op = "createIdentity", !.doc = Len(docs) + 1,
                             !.now = now]
    /\ UNCHANGED <<nextKey, backups, st, net, faults, dirt>>
    /\ UNCHANGED <<sessionVars, contentVars, sealVars>>

\* verifyIdentityDocument(identity.document) at time now
VerifySeeded(d, now) ==
    /\ now >= docs[d].created
    /\ last' = [INoOp EXCEPT !.op = "verifyIdentityDocument", !.doc = d,
                             !.now = now,
                             !.res = verifyIdentityDocument(docs[d].document, now)]
    /\ UNCHANGED <<docs, log, nextKey, backups, st, net, faults, dirt>>
    /\ UNCHANGED <<sessionVars, contentVars, sealVars>>

NextSeed ==
    \/ \E seed \in 1..MaxSeeds, type \in {"persistent", "ephemeral"},
          now \in 0..MaxTime :
          CreateIdentityFromSeed(seed, type, now)
    \/ \E d \in 1..Len(docs), now \in 0..MaxTime : VerifySeeded(d, now)

SpecSeed == InitSeed /\ [][NextSeed]_vars

\* C28: two createIdentity calls with the same seed return the same DID, and
\* the document of each call passes verifyIdentityDocument.
C28_SeedDeterminesDid ==
    /\ \A i, j \in 1..Len(docs) : log[i] = log[j] => docs[i].did = docs[j].did
    /\ last.op = "verifyIdentityDocument" =>
          last.res.valid /\ last.res.errors = <<>>

\* both calls used one seed, at different times, and the second document has
\* been verified
C28_Witness ==
    /\ Len(docs) = 2 /\ log[1] = log[2]
    /\ docs[1].created # docs[2].created
    /\ last.op = "verifyIdentityDocument" /\ last.doc = 2 /\ last.res.valid

(***************************************************************************)
(* Clock specification: one object made by createContent (content.ts) at   *)
(* some time, with or without an expiry, and handed unchanged to           *)
(* verifyContent at any reading of the verifier's clock, before or after   *)
(* the author's.  Time is counted in units of 300000 ms.                   *)
(***************************************************************************)
\* verifyContent(objects[o].content, resolver) at time now; with badAuthor
\* the author is did:rootless:web:<id>, which parseDID rejects
VerifyContentAt(o, badAuthor, resolver, now) ==
    /\ LET c == objects[o].content
           input == IF badAuthor THEN [c EXCEPT !.author[3] = "web"] ELSE c
       IN last' = [op |-> "verifyContent", obj |-> o,
                   field |-> IF badAuthor THEN "author" ELSE "none",
                   resolver |-> resolver, input |-> input, now |-> now,
                   res |-> verifyContent(input, resolver, now)]
    /\ UNCHANGED <<objects, nextKey>>
    /\ UNCHANGED <<ratchetVars, sessionVars, identityVars, sealVars>>

NextClock ==
    \/ \E a \in {"A", "B"}, expiresAt \in {None} \cup {Some(t) : t \in 0..MaxTime},
          now \in 0..MaxTime :
            /\ objects = <<>>
            /\ CreateContent(a, [DefaultInput(Payload(a, 1)) EXCEPT
                                    !.expiresAt = expiresAt], <<>>, now)
    \/ \E o \in 1..Len(objects), badAuthor \in BOOLEAN,
          resolver \in {"none", "failing", "registry"}, now \in 0..MaxTime :
            VerifyContentAt(o, badAuthor, resolver, now)

SpecClock == InitContent /\ [][NextClock]_vars

\* C29 (as claimed): verifyContent reports FUTURE_TIMESTAMP exactly when
\* timestamp > now + 5 minutes, and EXPIRED exactly when expiresAt is set and
\* expiresAt < now.
C29_TimeErrorsExact ==
    last.op = "verifyContent"
        => /\ Has(last.res.errors, "FUTURE_TIMESTAMP")
                <=> last.input.timestamp > last.now + maxFuture
           /\ Has(last.res.errors, "EXPIRED")
                <=> (last.input.expiresAt # None
                     /\ Get(last.input.expiresAt) < last.now)

\* the part of C29 the code keeps: once the author's key is obtained, the two
\* errors are reported exactly under the claimed conditions, for every expiry
\* other than 0
C29_ExactWhenKeyObtained ==
    (/\ last.op = "verifyContent"
     /\ ~Has(last.res.errors, "INVALID_AUTHOR_DID")
     /\ ~Has(last.res.errors, "AUTHOR_KEY_NOT_FOUND")
     /\ last.input.expiresAt # Some(0))
        => /\ Has(last.res.errors, "FUTURE_TIMESTAMP")
                <=> last.input.timestamp > last.now + maxFuture
           /\ Has(last.res.errors, "EXPIRED")
                <=> (last.input.expiresAt # None
                     /\ Get(last.input.expiresAt) < last.now)

(***************************************************************************)
(* Client specification: the RootlessNet class of the SDK (index.ts), its  *)
(* createIdentity and its event methods on and emit.  st is the client     *)
(* object.  createIdentity awaits the identity package before it goes on,  *)
(* so subscriptions may change between its call and its continuation.      *)
(* Handler h returns, throws, or calls the unsubscribe function of handler *)
(* h - 2 for identity:created, according to h modulo 3.                    *)
(***************************************************************************)
MaxHandlers == 3
MaxCalls == 2

Handlers == 1..MaxHandlers
EventType == {"identity:created", "content:created"}

\* what the body of handler h does
handlerBody(h) ==
    CASE h % 3 = 1 -> "returns"
      [] h % 3 = 2 -> "throws"
      [] OTHER -> "unsubscribes"

\* Set.add and Set.delete on a set kept in insertion order
SetAdd(set, h) == IF \E i \in DOMAIN set : set[i] = h THEN set ELSE Append(set, h)
SetDelete(set, h) == SelectSeq(set, LAMBDA x : x # h)

\* a call of the handler that lets its exception escape
tryCall_rethrow(h) == IF handlerBody(h) = "throws" THEN "threw" ELSE "returned"
\* try { handler(data) } catch (error) { console.error(...) }
tryCall(h) == "returned"

\* the loop of emit over the handlers of the event: `rest` are the handlers
\* the iteration has not reached, `client` the client as the handlers have
\* left it; a handler deleted before the iteration reaches it is not visited
RECURSIVE emitLoop(_, _, _, _, _)
emitLoop(client, event, data, rest, invoked) ==
    IF rest = <<>> THEN [client |-> client, invoked |-> invoked, threw |-> FALSE]
    ELSE LET h == Head(rest)
             call == [handler |-> h, data |-> data,
                      identity |-> client.identity,
                      sessionManager |-> client.sessionManager]
             target == h - 2
             after ==
                IF handlerBody(h) = "unsubscribes"
                THEN [client EXCEPT
                        !.eventHandlers["identity:created"] = SetDelete(@, target)]
                ELSE client
             left == SelectSeq(Tail(rest),
                               LAMBDA x : \E i \in DOMAIN after.eventHandlers[event] :
                                             after.eventHandlers[event][i] = x)
         IN IF tryCall(h) = "threw"
            THEN [client |-> after, invoked |-> Append(invoked, call), threw |-> TRUE]
            ELSE emitLoop(after, event, data, left, Append(invoked, call))

emit(client, event, data) ==
    emitLoop(client, event, data, client.eventHandlers[event], <<>>)

KNoOp == [op |-> "none", handlers |-> <<>>, invoked |-> <<>>, res |-> Err("none")]

InitClient ==
    /\ st = [identity |-> None, sessionManager |-> None,
             eventHandlers |-> [e \in EventType |-> <<>>],
             pending |-> 0, calls |-> 0]
    /\ last = KNoOp
    /\ nextKey = 1
    /\ net = <<>> /\ log = <<>> /\ faults = 0 /\ dirt = "clean"
    /\ prekeys = <<>> /\ bundle = <<>> /\ convs = <<>> /\ shakes = <<>> /\ dms = <<>>
    /\ objects = <<>> /\ docs = <<>> /\ backups = <<>> /\ boxes = <<>>

\* on(event, handler)
On(event, h) ==
    /\ st' = [st EXCEPT !.eventHandlers[event] = SetAdd(@, h)]
    /\ last' = [KNoOp EXCEPT !.op = "on"]
    /\ UNCHANGED <<nextKey, net, log, faults, dirt>>
    /\ UNCHANGED <<sessionVars, contentVars, identityVars, sealVars>>

\* the function an earlier on(event, handler) returned
Unsubscribe(event, h) ==
    /\ st' = [st EXCEPT !.eventHandlers[event] = SetDelete(@, h)]
    /\ last' = [KNoOp EXCEPT !.op = "unsubscribe"]
    /\ UNCHANGED <<nextKey, net, log, faults, dirt>>
    /\ UNCHANGED <<sessionVars, contentVars, identityVars, sealVars>>

\* client.createIdentity() up to its await
CallCreateIdentity ==
    /\ st.calls < MaxCalls
    /\ st' = [st EXCEPT !.pending = @ + 1, !.calls = @ + 1]
    /\ last' = [KNoOp EXCEPT !.op = "call"]
    /\ UNCHANGED <<nextKey, net, log, faults, dirt>>
    /\ UNCHANGED <<sessionVars, contentVars, identityVars, sealVars>>

\* client.createIdentity() from its await on: the identity and the session
\* manager are stored, the event is emitted and the identity returned
FinishCreateIdentity ==
    /\ st.pending > 0
    /\ LET identity == createIdentity(nextKey, "persistent", 0)
           stored == [st EXCEPT !.identity = Some(identity),
                                !.sessionManager = Some([identity |-> identity]),
                                !.pending = @ - 1]
           e == emit(stored, "identity:created", identity)
       IN /\ st' = e.client
          /\ last' = [op |-> "createIdentity",
                      handlers |-> st.eventHandlers["identity:created"],
                      invoked |-> e.invoked,
                      res |-> IF e.threw THEN Err("handler") ELSE Ok(identity)]
    /\ nextKey' = nextKey + 2
    /\ UNCHANGED <<net, log, faults, dirt>>
    /\ UNCHANGED <<sessionVars, contentVars, identityVars, sealVars>>

NextClient ==
    \/ \E h \in Handlers : On("identity:created", h)
    \/ On("content:created", 1)
    \/ \E h \in Handlers : Unsubscribe("identity:created", h)
    \/ Unsubscribe("content:created", 1)
    \/ CallCreateIdentity
    \/ FinishCreateIdentity

SpecClient == InitClient /\ [][NextClient]_vars

\* how often handler h was invoked by the last createIdentity
Invocations(h) == Cardinality({i \in DOMAIN last.invoked : last.invoked[i].handler = h})

C31_FailedDecryptChangesNothing ==
    [][(last'.op = "decrypt" /\ last'.res.kind # "ok" /\ st' # st) => FALSE]_vars

\* C32 (as claimed): no ratchet operation changes B's PrekeySet: its
\* signed-prekey private key stays the one generated with the set, and every
\* acceptConversation derives the secret the initiator's x3dhInitiate returned.
C32_PrekeySetUntouched ==
    /\ prekeys.signedPrekey.privateKey
          = generatePrekeySet(Identity("B").keySet.encryption,
                              Identity("B").keySet.signing,
                              NumOneTimePrekeys, 7).signedPrekey.privateKey
    /\ (last.op = "accept" /\ last.res.kind = "ok")
          => last.secret = Some(shakes[last.hs].sharedSecret)

\* C33 (as claimed): a sendMessage or receiveMessage of B on one conversation
\* leaves the ratchet state of every other conversation of B as it was.
C33_OtherConversationsUntouched ==
    [][(last'.op \in {"send", "receive"} /\ last'.who = "B")
          => \A c \in 1..Len(convs["B"]) :
                convs["B"][c].hs # last'.hs
                    => convs'["B"][c].ratchetState = convs["B"][c].ratchetState]_vars

(***************************************************************************)
(* Step specification: the two ratchet states of the ratchet               *)
(* specification with more messages and a network that delivers every      *)
(* message at most once, untampered, in any order.                         *)
(***************************************************************************)
MaxStepMsgs == 5

NextStep ==
    \/ \E p \in Party : Len(net) < MaxStepMsgs /\ Send(p)
    \/ \E j \in 1..Len(net) : log[j].deliv = 0 /\ Deliver(j)

SpecStep == InitRatchet /\ [][NextStep]_vars

\* the step from st to st' replaced p's DH key pair
Stepped(p) == st'[p].dhSend # st[p].dhSend

\* C34 (as claimed): ratchetDecrypt performs a DH ratchet step exactly when
\* the message's key is not among the skipped keys and header.dhPublic
\* differs from dhReceive (or dhReceive is not set); ratchetEncrypt, and
\* ratchetDecrypt of a message of the current receiving chain, leave dhSend,
\* dhReceive and rootKey unchanged.
C34_StepExactlyOnNewKey ==
    [][LET p == last'.who
           h == net[last'.msg].message.header
           cached == MapHas(st[p].skippedKeys, SkippedKeyId(h.dhPublic, h.n))
           dhChanged == st[p].dhReceive = None \/ Get(st[p].dhReceive) # h.dhPublic
           frame == /\ st'[p].dhSend = st[p].dhSend
                    /\ st'[p].dhReceive = st[p].dhReceive
                    /\ st'[p].rootKey = st[p].rootKey
       IN /\ (last'.op = "encrypt" /\ last'.res.kind = "ok") => frame
          /\ last'.op = "decrypt" =>
                /\ Stepped(p) <=> (~cached /\ dhChanged)
                /\ ~Stepped(p) => frame]_vars

\* C34 (amended): ratchetDecrypt performs a DH ratchet step exactly when the
\* message's key is not among the skipped keys, header.dhPublic differs from
\* dhReceive (or dhReceive is not set), and closing the current receiving
\* chain at header.pn does not raise TOO_MANY_SKIPPED; in that last case, as
\* for ratchetEncrypt and for a message of the current receiving chain,
\* dhSend, dhReceive and rootKey are left unchanged.
C34_StepUnlessSkipRefused ==
    [][LET p == last'.who
           h == net[last'.msg].message.header
           cached == MapHas(st[p].skippedKeys, SkippedKeyId(h.dhPublic, h.n))
           dhChanged == st[p].dhReceive = None \/ Get(st[p].dhReceive) # h.dhPublic
           refused == /\ st[p].dhReceive # None
                      /\ st[p].receiveChainKey # None
                      /\ st[p].receiveN + st[p].maxSkip < h.pn
           frame == /\ st'[p].dhSend = st[p].dhSend
                    /\ st'[p].dhReceive = st[p].dhReceive
                    /\ st'[p].rootKey = st[p].rootKey
       IN /\ (last'.op = "encrypt" /\ last'.res.kind = "ok") => frame
          /\ last'.op = "decrypt" =>
                /\ Stepped(p) <=> (~cached /\ dhChanged /\ ~refused)
                /\ ~Stepped(p) => frame
                /\ Stepped(p) => st'[p].dhReceive = Some(h.dhPublic)
                /\ (~cached /\ dhChanged /\ refused)
                      => last'.res.kind = "TooManySkipped"]_vars

\* B has decrypted on A's second chain through a DH ratchet step, and a
\* message of that chain has been decrypted without a further step
C34_Witness ==
    /\ last.op = "decrypt" /\ last.who = "B" /\ last.res.kind = "ok"
    /\ net[last.msg].message.header.n = 1
    /\ net[last.msg].message.header.pn > 0
    /\ st["B"].dhReceive = Some(net[last.msg].message.header.dhPublic)
    /\ st["B"].receiveN = 2

\* a message of a new chain was refused because closing the old chain would
\* take more than maxSkip keys, and no step was made
C34_WitnessRefused ==
    /\ last.op = "decrypt" /\ last.res.kind = "TooManySkipped"
    /\ st[last.who].dhReceive # None
    /\ st[last.who].dhReceive # Some(net[last.msg].message.header.dhPublic)
    /\ net[last.msg].message.header.pn > st[last.who].receiveN + st[last.who].maxSkip

\* C35: the k-th successful ratchetEncrypt since the sender's last DH ratchet
\* step (k = 0, 1, 2, ...) emits a header with n = k, dhPublic = the public
\* key of dhSend and pn = previousSendN, and increases sendN by exactly one;
\* no two emitted messages carry the same (dhPublic, n).
C35_HeaderCountsChain ==
    [][(last'.op = "encrypt" /\ last'.res.kind = "ok") =>
          LET p == last'.who
              header == net'[last'.msg].message.header
          IN /\ Len(net') = Len(net) + 1 /\ last'.msg = Len(net')
             /\ header.n = Cardinality(SentOnChain(p))
             /\ header.n = st[p].sendN
             /\ header.dhPublic = st[p].dhSend.publicKey
             /\ header.pn = st[p].previousSendN
             /\ st'[p].sendN = st[p].sendN + 1
             /\ st'[p].dhSend = st[p].dhSend
             /\ st'[p].previousSendN = st[p].previousSendN
             /\ \A i, j \in 1..Len(net') :
                   (/\ net'[i].message.header.dhPublic = net'[j].message.header.dhPublic
                    /\ net'[i].message.header.n = net'[j].message.header.n) => i = j]_vars

\* A has sent its third message on one chain (n = 2), and B, after its DH
\* ratchet step, has sent its second (n = 1)
C35_Witness ==
    /\ last.op = "encrypt" /\ last.res.kind = "ok" /\ last.who = "B"
    /\ net[last.msg].message.header.n = 1
    /\ st["B"].sendN = 2
    /\ \E j \in 1..Len(net) : net[j].to = "B" /\ net[j].message.header.n = 2

(***************************************************************************)
(* Skip specification: the step specification with room for one more       *)
(* skipped key in each state (MAX_SKIP scaled to MaxSkip + 1), so that the *)
(* map holds several entries.                                              *)
(***************************************************************************)
InitSkip ==
    /\ st = [p \in Party |->
               [(IF p = "A"
                 THEN initSenderRatchet(RatchetSecret, SignedPrekeyPair.publicKey, 2)
                 ELSE initReceiverRatchet(RatchetSecret, SignedPrekeyPair))
                EXCEPT !.maxSkip = MaxSkip + 1]]
    /\ net = <<>> /\ log = <<>>
    /\ nextKey = 3
    /\ faults = 0 /\ dirt = "clean"
    /\ last = NoOp
    /\ prekeys = <<>> /\ bundle = <<>> /\ convs = <<>>
    /\ shakes = <<>> /\ dms = <<>>
    /\ objects = <<>>
    /\ docs = <<>> /\ backups = <<>> /\ boxes = <<>>

SpecSkip == InitSkip /\ [][NextStep]_vars

\* C36: when ratchetDecrypt finds the message's (dhPublic, n) in skippedKeys,
\* it removes exactly that entry and leaves dhSend, dhReceive, rootKey, both
\* chain keys, all counters and every other skipped-key entry unchanged.
C36_SkippedKeyFrame ==
    [][last'.op = "decrypt" =>
          LET p == last'.who
              h == net[last'.msg].message.header
              keyId == SkippedKeyId(h.dhPublic, h.n)
          IN MapHas(st[p].skippedKeys, keyId) =>
                /\ \A f \in DOMAIN st[p] \ {"skippedKeys"} : st'[p][f] = st[p][f]
                /\ st'[p].skippedKeys
                      = SelectSeq(st[p].skippedKeys, LAMBDA e : e.id # keyId)
                /\ Len(st'[p].skippedKeys) = Len(st[p].skippedKeys) - 1]_vars

\* a message was decrypted with its stored key while the receiver was ahead
\* of it on the same chain, and the key of another message is still stored
C36_Witness ==
    /\ last.op = "decrypt" /\ last.cached /\ last.res.kind = "ok"
    /\ Len(st[last.who].skippedKeys) = 1
    /\ st[last.who].skippedKeys[1].id[2] < net[last.msg].message.header.n
    /\ st[last.who].receiveN > net[last.msg].message.header.n + 1
    /\ st[last.who].dhReceive = Some(net[last.msg].message.header.dhPublic)

\* the ids (dhPublic, from), ..., (dhPublic, until - 1), in this order
IdsOf(dhPublic, from, until) ==
    [i \in 1..(IF until > from THEN until - from ELSE 0) |->
        SkippedKeyId(dhPublic, from + i - 1)]

\* C37: whenever storing a skipped key makes skippedKeys exceed maxSkip, the
\* entry removed is the one stored earliest among those present, and no other
\* entry is removed: after a decryption that stored keys, the map holds, in
\* the order they were stored, the last maxSkip of the entries it held before
\* followed by the entries the call stored (all of them when there are fewer).
C37_OldestEvicted ==
    [][(last'.op = "decrypt" /\ last'.res.kind = "ok" /\ ~last'.cached) =>
          LET p == last'.who
              s == st[p]
              h == net[last'.msg].message.header
              onChain == s.dhReceive = Some(h.dhPublic)
              stored ==
                  IF onChain THEN IdsOf(h.dhPublic, s.receiveN, h.n)
                  ELSE (IF s.dhReceive # None /\ s.receiveChainKey # None
                        THEN IdsOf(Get(s.dhReceive), s.receiveN, h.pn)
                        ELSE <<>>)
                       \o IdsOf(h.dhPublic, 0, h.n)
              all == [i \in 1..Len(s.skippedKeys) |-> s.skippedKeys[i].id] \o stored
              kept == IF Len(all) > s.maxSkip THEN s.maxSkip ELSE Len(all)
              now == [i \in 1..Len(st'[p].skippedKeys) |-> st'[p].skippedKeys[i].id]
          IN now = SubSeq(all, Len(all) - kept + 1, Len(all))]_vars

\* B held the keys of messages 0 and 1, stored the key of message 3 and
\* evicted that of message 0: the keys of 1 and 3 remain, in this order
C37_Witness ==
    /\ last.op = "decrypt" /\ last.who = "B" /\ last.evicted
    /\ last.res.kind = "ok"
    /\ Len(st["B"].skippedKeys) = 2
    /\ st["B"].skippedKeys[1].id[2] = 1
    /\ st["B"].skippedKeys[2].id[2] = 3
    /\ st["B"].skippedKeys[1].id[1] = st["B"].skippedKeys[2].id[1]

(***************************************************************************)
(* Intermediate secrets (x3dh.ts): the DH outputs x3dhRespond has computed *)
(* and not zeroized when it returns or throws.                             *)
(***************************************************************************)
\* x3dhRespond computes dh1, dh2, dh3 before it looks up the one-time prekey;
\* the zeroize calls stand after the derivation of the shared secret
x3dhRespondResidue(ourPrekeySet, theirIdentityKey, theirEphemeralKey, usedSignedPrekeyId, usedOneTimePrekeyId) ==
    IF ~knownSignedPrekey(ourPrekeySet, usedSignedPrekeyId) THEN {}
    ELSE IF /\ usedOneTimePrekeyId # None
            /\ findOtp(ourPrekeySet.oneTimePrekeys, Get(usedOneTimePrekeyId)) = 0
    THEN {respondDHs(ourPrekeySet, theirIdentityKey, theirEphemeralKey)[i] : i \in 1..3}
    ELSE {}

\* C38 (as claimed): x3dhRespond leaves no DH output un-zeroized when it
\* returns or raises.
C38_NoSecretLeft ==
    [][last'.op = "accept" =>
          x3dhRespondResidue(prekeys,
                             Identity(shakes[last'.hs].initiator).keySet.encryption.publicKey,
                             shakes[last'.hs].ephemeralPublic,
                             last'.input[1], last'.input[2]) = {}]_vars

(***************************************************************************)
(* Verification specification: one content object or one identity is made *)
(* (content.ts, identity.ts) and handed to its verifier, as it is or       *)
(* changed, at any later time.                                             *)
(***************************************************************************)
NextVerify ==
    \/ \E a \in {"A", "B"}, encryption \in {"none", "self"},
          options \in {"plain", "expiring"}, now \in 0..MaxTime :
            /\ objects = <<>> /\ docs = <<>>
            /\ CreateContent(a, InputOf(a, encryption, options, now), <<>>, now)
    \/ \E o \in 1..Len(objects),
          field \in {"none", "id", "timestamp", "expiresAt", "payload", "signature"},
          badAuthor \in BOOLEAN,
          resolver \in {"none", "failing", "registry"}, now \in 0..MaxTime :
            VerifyContent(o, field, badAuthor, resolver, now)
    \/ \E type \in {"ephemeral", "persistent"}, now \in 0..MaxTime :
            /\ objects = <<>> /\ docs = <<>>
            /\ CreateIdentity(type, now)
    \/ \E d \in 1..Len(docs), c \in Changes, now \in 0..MaxTime :
            VerifyIdentityDocument(d, c, now)

SpecVerify == InitContent /\ [][NextVerify]_vars

\* C39: for verifyContent and verifyIdentityDocument, valid is true exactly
\* when the returned error list is empty, and the verified object is included
\* in the result exactly when valid is true.
C39_ValidIffNoErrors ==
    /\ last.op = "verifyContent" =>
          /\ last.res.valid <=> last.res.errors = <<>>
          /\ last.res.content # None <=> last.res.valid
          /\ last.res.valid => last.res.content = Some(last.input)
    /\ last.op = "verifyIdentityDocument" =>
          /\ last.res.valid <=> last.res.errors = <<>>
          /\ last.res.document # None <=> last.res.valid
          /\ last.res.valid => last.res.document = Some(last.input)

\* a document with a revoked key was verified: one error, not valid, no
\* document in the result
C39_Witness ==
    /\ last.op = "verifyIdentityDocument"
    /\ Len(last.res.errors) = 1 /\ last.res.errors[1][1] = "KEY_REVOKED"
    /\ ~last.res.valid /\ last.res.document = None

\* a content object was verified without errors and is part of the result
C39_WitnessContent ==
    /\ last.op = "verifyContent"
    /\ last.res.errors = <<>> /\ last.res.valid
    /\ last.res.content = Some(objects[last.obj].content)

====
